---- MODULE Spec2Model ----
(***************************************************************************)
(* A model of gorp's table-mapping and statement-binding engine            *)
(* (src/gorp.go, the revision that starts at line 826): table metadata,    *)
(* the four cached bind plans, createBindInstance, the insert / update /   *)
(* delete / get engine with optimistic locking, and Transaction.           *)
(*                                                                         *)
(* A SQL statement is kept as the structure the generated text denotes:    *)
(* verb, table, the column list with the placeholder bound to each column, *)
(* and the WHERE column list with its placeholders.  The store is the set  *)
(* of rows of the one mapped table; ExecSql gives the statements their SQL *)
(* meaning.                                                                *)
(***************************************************************************)
EXTENDS Integers, Sequences, FiniteSets, TLC

VARIABLES
    table,      \* the TableMap of the mapped struct type (metadata + 4 plans)
    rows,       \* the store: the set of rows of the mapped table
    nextId,     \* the store's auto-increment counter
    recs,       \* the caller's in-memory structs, by handle (pointer)
    call,       \* the Insert/Update/Delete call in progress (its loop state)
    ret,        \* what the last finished call returned
    log,        \* the statements the last record step sent to the executor
    txs,        \* the Transaction objects, by id
    procs,      \* goroutines inside bindInsert/bindUpdate/bindDelete/bindGet
    builds,     \* per plan: runs of the build body since the last ResetSql
    epoch,      \* metadata mutations made on the table after its registration
    hooks,      \* the hook methods the last record step called, with their results
    tables,     \* DbMap.tables, the registry: one entry per AddTable that appended
    typed,      \* Insert / Update / Delete / Get calls made through the registry
    dbmap       \* DbMap.initialised, and the InitString of the DbMap's dialect

vars == <<table, rows, nextId, recs, call, ret, log, txs, procs, builds, epoch, hooks,
          tables, typed, dbmap>>

----------------------------------------------------------------------------
(* Bounds of the model *)

MaxVersion == 1     \* versions a caller writes into a struct: 0..MaxVersion
MaxId == 1          \* the last id the store's auto-increment counter hands out
MaxBatch == 2       \* records passed to one Insert/Update/Delete call
MaxMutations == 2   \* metadata mutations made after the table is registered
MaxTx == 2          \* Transaction objects
MaxCalls == 3       \* calls of Commit / Rollback on one Transaction
MaxTyped == 2       \* Insert / Update / Delete / Get calls made through the registry
MaxTables == 1      \* struct types with embedded structs registered on one DbMap
MaxStatements == 3  \* statements sent before the last Exec / Query / QueryRow call starts

Names == {"a"}
Handles == {"p1", "p2"}

----------------------------------------------------------------------------
(* Metadata: TableMap, ColumnMap, bindPlan *)

versFieldConst == "[gorp_ver_field]"

\* The mapped struct type: its fields in declaration order, and its zero value.
Fields == <<"Id", "Name", "Version">>
ZeroStruct == [Id |-> 0, Name |-> "", Version |-> 0]

\* The statement text "" and the zero bindPlan{}.
NoQuery == [verb |-> "", table |-> "", cols |-> <<>>, vars |-> <<>>,
            wcols |-> <<>>, wvars |-> <<>>]
EmptyPlan == [query |-> NoQuery, argFields |-> <<>>, keyFields |-> <<>>,
              versField |-> "", autoIncrIdx |-> 0, autoIncrFieldName |-> ""]

\* Dialect: the placeholder for bind variable i (0-based), as "$i+1", and the
\* token written in place of a placeholder for an auto-increment column.
BindVar(i) == i + 1
AutoIncrBindValue == 0

RECURSIVE readStructColumnsLoop(_, _)
readStructColumnsLoop(i, acc) ==
    IF i > Len(Fields) THEN acc
    ELSE readStructColumnsLoop(i + 1,
            [cols |-> Append(acc.cols,
                        [ColumnName |-> Fields[i], Transient |-> Fields[i] = "-",
                         Unique |-> FALSE, fieldName |-> Fields[i],
                         isPK |-> FALSE, isAutoIncr |-> FALSE]),
             version |-> IF Fields[i] = "Version" THEN i ELSE acc.version])

\* cols and the version column (a pointer into cols, here its index; 0 is nil).
readStructColumns == readStructColumnsLoop(1, [cols |-> <<>>, version |-> 0])

AddTableWithName(name) ==
    [TableName |-> name,
     columns |-> readStructColumns.cols,
     keys |-> <<>>,
     version |-> readStructColumns.version,
     insertPlan |-> EmptyPlan, updatePlan |-> EmptyPlan,
     deletePlan |-> EmptyPlan, getPlan |-> EmptyPlan]

ResetSql(t) ==
    [t EXCEPT !.insertPlan = EmptyPlan, !.updatePlan = EmptyPlan,
              !.deletePlan = EmptyPlan, !.getPlan = EmptyPlan]

\* The index of the first column whose field name or column name is field;
\* 0 when there is none (nil).
colMapOrNil(t, field) ==
    LET hits == {y \in 1..Len(t.columns) :
                    t.columns[y].fieldName = field \/ t.columns[y].ColumnName = field}
    IN IF hits = {} THEN 0 ELSE CHOOSE y \in hits : \A z \in hits : y <= z

RECURSIVE SetKeysLoop(_, _, _, _)
SetKeysLoop(t, isAutoIncr, fieldNames, i) ==
    IF i > Len(fieldNames) THEN t
    ELSE LET y == colMapOrNil(t, fieldNames[i])
         IN SetKeysLoop([t EXCEPT !.columns[y].isPK = TRUE,
                                  !.columns[y].isAutoIncr = isAutoIncr,
                                  !.keys = Append(@, y)],
                        isAutoIncr, fieldNames, i + 1)

\* SetKeys without its closing ResetSql.
SetKeys_NoReset(t, isAutoIncr, fieldNames) ==
    SetKeysLoop([t EXCEPT !.keys = <<>>], isAutoIncr, fieldNames, 1)

\* Defined when every name is a column (ColMap panics otherwise) and
\* isAutoIncr comes with exactly one name.
SetKeys(t, isAutoIncr, fieldNames) ==
    ResetSql(SetKeysLoop([t EXCEPT !.keys = <<>>], isAutoIncr, fieldNames, 1))

SetVersionCol(t, field) ==
    ResetSql([t EXCEPT !.version = colMapOrNil(t, field)])

Rename(t, y, colname) == [t EXCEPT !.columns[y].ColumnName = colname]

SetTransient(t, y, b) == [t EXCEPT !.columns[y].Transient = b]

SetUnique(t, y, b) == [t EXCEPT !.columns[y].Unique = b]

----------------------------------------------------------------------------
(* The build bodies of the four plans *)

RECURSIVE bindInsertLoop(_, _, _)
bindInsertLoop(t, y, acc) ==
    IF y > Len(t.columns) THEN acc
    ELSE LET col == t.columns[y] IN
         IF col.Transient THEN bindInsertLoop(t, y + 1, acc)
         ELSE IF col.isAutoIncr
              THEN bindInsertLoop(t, y + 1,
                     [acc EXCEPT !.cols = Append(@, col.ColumnName),
                                 !.vars = Append(@, AutoIncrBindValue),
                                 !.autoIncrIdx = y - 1,
                                 !.autoIncrFieldName = col.fieldName])
              ELSE bindInsertLoop(t, y + 1,
                     [acc EXCEPT !.cols = Append(@, col.ColumnName),
                                 !.vars = Append(@, BindVar(acc.x)),
                                 !.versField = IF y = t.version THEN col.fieldName ELSE @,
                                 !.argFields = Append(@, IF y = t.version
                                                         THEN versFieldConst
                                                         ELSE col.fieldName),
                                 !.x = @ + 1])

BuildAcc == [cols |-> <<>>, vars |-> <<>>, wcols |-> <<>>, wvars |-> <<>>,
             argFields |-> <<>>, keyFields |-> <<>>, versField |-> "",
             autoIncrIdx |-> 0, autoIncrFieldName |-> "", x |-> 0]

PlanOf(t, verb, acc) ==
    [query |-> [verb |-> verb, table |-> t.TableName, cols |-> acc.cols,
                vars |-> acc.vars, wcols |-> acc.wcols, wvars |-> acc.wvars],
     argFields |-> acc.argFields, keyFields |-> acc.keyFields,
     versField |-> acc.versField, autoIncrIdx |-> acc.autoIncrIdx,
     autoIncrFieldName |-> acc.autoIncrFieldName]

buildInsert(t) ==
    PlanOf(t, "insert", bindInsertLoop(t, 1, [BuildAcc EXCEPT !.autoIncrIdx = -1]))

RECURSIVE bindUpdateSetLoop(_, _, _)
bindUpdateSetLoop(t, y, acc) ==
    IF y > Len(t.columns) THEN acc
    ELSE LET col == t.columns[y] IN
         IF ~col.isPK /\ ~col.Transient
         THEN bindUpdateSetLoop(t, y + 1,
                [acc EXCEPT !.cols = Append(@, col.ColumnName),
                            !.vars = Append(@, BindVar(acc.x)),
                            !.versField = IF y = t.version THEN col.fieldName ELSE @,
                            !.argFields = Append(@, IF y = t.version
                                                    THEN versFieldConst
                                                    ELSE col.fieldName),
                            !.x = @ + 1])
         ELSE bindUpdateSetLoop(t, y + 1, acc)

RECURSIVE bindUpdateKeyLoop(_, _, _)
bindUpdateKeyLoop(t, y, acc) ==
    IF y > Len(t.keys) THEN acc
    ELSE LET col == t.columns[t.keys[y]] IN
         bindUpdateKeyLoop(t, y + 1,
            [acc EXCEPT !.wcols = Append(@, col.ColumnName),
                        !.wvars = Append(@, BindVar(acc.x)),
                        !.argFields = Append(@, col.fieldName),
                        !.keyFields = Append(@, col.fieldName),
                        !.x = @ + 1])

\* The trailing "and <version column> = ?" of update.
bindUpdateVersion(t, acc) ==
    IF acc.versField # ""
    THEN [acc EXCEPT !.wcols = Append(@, t.columns[t.version].ColumnName),
                     !.wvars = Append(@, BindVar(acc.x)),
                     !.argFields = Append(@, acc.versField)]
    ELSE acc

buildUpdate(t) ==
    PlanOf(t, "update",
           bindUpdateVersion(t,
               bindUpdateKeyLoop(t, 1, bindUpdateSetLoop(t, 1, BuildAcc))))

RECURSIVE bindDeleteVersLoop(_, _, _)
bindDeleteVersLoop(t, y, acc) ==
    IF y > Len(t.columns) THEN acc
    ELSE bindDeleteVersLoop(t, y + 1,
            IF ~t.columns[y].Transient /\ y = t.version
            THEN [acc EXCEPT !.versField = t.columns[y].fieldName]
            ELSE acc)

RECURSIVE bindDeleteKeyLoop(_, _, _)
bindDeleteKeyLoop(t, x, acc) ==
    IF x > Len(t.keys) THEN acc
    ELSE LET k == t.columns[t.keys[x]] IN
         bindDeleteKeyLoop(t, x + 1,
            [acc EXCEPT !.wcols = Append(@, k.ColumnName),
                        !.wvars = Append(@, BindVar(x - 1)),
                        !.keyFields = Append(@, k.fieldName),
                        !.argFields = Append(@, k.fieldName)])

\* The trailing "and <version column> = ?" of delete.
bindDeleteVersion(t, acc) ==
    IF acc.versField # ""
    THEN [acc EXCEPT !.wcols = Append(@, t.columns[t.version].ColumnName),
                     !.wvars = Append(@, BindVar(Len(acc.argFields))),
                     !.argFields = Append(@, acc.versField)]
    ELSE acc

buildDelete(t) ==
    PlanOf(t, "delete",
           bindDeleteVersion(t,
               bindDeleteKeyLoop(t, 1, bindDeleteVersLoop(t, 1, BuildAcc))))

RECURSIVE bindGetColLoop(_, _, _)
bindGetColLoop(t, y, acc) ==
    IF y > Len(t.columns) THEN acc
    ELSE LET col == t.columns[y] IN
         IF ~col.Transient
         THEN bindGetColLoop(t, y + 1,
                [acc EXCEPT !.cols = Append(@, col.ColumnName),
                            !.argFields = Append(@, col.fieldName)])
         ELSE bindGetColLoop(t, y + 1, acc)

RECURSIVE bindGetKeyLoop(_, _, _)
bindGetKeyLoop(t, x, acc) ==
    IF x > Len(t.keys) THEN acc
    ELSE LET col == t.columns[t.keys[x]] IN
         bindGetKeyLoop(t, x + 1,
            [acc EXCEPT !.wcols = Append(@, col.ColumnName),
                        !.wvars = Append(@, BindVar(x - 1)),
                        !.keyFields = Append(@, col.fieldName)])

\* bindGet's build body with the select list made of every column, transient
\* or not.
buildGet_TransientKept(t) ==
    PlanOf(t, "select",
           bindGetKeyLoop(t, 1,
              bindGetColLoop([t EXCEPT !.columns =
                                 [y \in 1..Len(t.columns) |->
                                     [t.columns[y] EXCEPT !.Transient = FALSE]]],
                             1, BuildAcc)))

buildGet(t) ==
    PlanOf(t, "select", bindGetKeyLoop(t, 1, bindGetColLoop(t, 1, BuildAcc)))

----------------------------------------------------------------------------
(* createBindInstance: the arguments of one execution of a plan *)

\* The loop over plan.argFields; acc holds bi.args and the struct, which the
\* loop writes when it meets the version marker with existingVersion = 0.
RECURSIVE bindArgsLoop(_, _, _, _)
bindArgsLoop(plan, i, existingVersion, acc) ==
    IF i > Len(plan.argFields) THEN acc
    ELSE LET k == plan.argFields[i] IN
         IF k = versFieldConst
         THEN LET newVer == existingVersion + 1 IN
              bindArgsLoop(plan, i + 1, existingVersion,
                  [args |-> Append(acc.args, newVer),
                   elem |-> IF existingVersion = 0
                            THEN [acc.elem EXCEPT ![plan.versField] = newVer]
                            ELSE acc.elem])
         ELSE bindArgsLoop(plan, i + 1, existingVersion,
                  [acc EXCEPT !.args = Append(@, acc.elem[k])])

\* createBindInstance without elem.FieldByName(plan.versField).SetInt(newVer).
createBindInstance_NoVersionWriteBack(plan, elem) ==
    LET existingVersion == IF plan.versField # "" THEN elem[plan.versField] ELSE 0
        a == bindArgsLoop(plan, 1, existingVersion, [args |-> <<>>, elem |-> elem])
    IN [bi |-> [query |-> plan.query,
                args |-> a.args,
                keys |-> [i \in 1..Len(plan.keyFields) |-> a.elem[plan.keyFields[i]]],
                existingVersion |-> existingVersion,
                versField |-> plan.versField,
                autoIncrIdx |-> plan.autoIncrIdx,
                autoIncrFieldName |-> plan.autoIncrFieldName],
        elem |-> elem]

\* createBindInstance with the SetInt not under `if bi.existingVersion == 0`.
createBindInstance_AlwaysWriteBack(plan, elem) ==
    LET existingVersion == IF plan.versField # "" THEN elem[plan.versField] ELSE 0
        a == bindArgsLoop(plan, 1, existingVersion, [args |-> <<>>, elem |-> elem])
        marked == \E i \in 1..Len(plan.argFields) : plan.argFields[i] = versFieldConst
    IN [bi |-> [query |-> plan.query,
                args |-> a.args,
                keys |-> [i \in 1..Len(plan.keyFields) |-> a.elem[plan.keyFields[i]]],
                existingVersion |-> existingVersion,
                versField |-> plan.versField,
                autoIncrIdx |-> plan.autoIncrIdx,
                autoIncrFieldName |-> plan.autoIncrFieldName],
        elem |-> IF marked THEN [a.elem EXCEPT ![plan.versField] = existingVersion + 1]
                 ELSE a.elem]

\* [bi, elem]: the bindInstance and the struct as the call leaves it.
createBindInstance(plan, elem) ==
    LET existingVersion == IF plan.versField # "" THEN elem[plan.versField] ELSE 0
        a == bindArgsLoop(plan, 1, existingVersion, [args |-> <<>>, elem |-> elem])
    IN [bi |-> [query |-> plan.query,
                args |-> a.args,
                keys |-> [i \in 1..Len(plan.keyFields) |-> a.elem[plan.keyFields[i]]],
                existingVersion |-> existingVersion,
                versField |-> plan.versField,
                autoIncrIdx |-> plan.autoIncrIdx,
                autoIncrFieldName |-> plan.autoIncrFieldName],
        elem |-> a.elem]

\* bindX: the cached plan, or the build body's plan stored in the cache, and
\* the bind instance made from it.  [table, cbi]
bindInsert(t, elem) ==
    LET plan == IF t.insertPlan.query = NoQuery THEN buildInsert(t) ELSE t.insertPlan
    IN [table |-> [t EXCEPT !.insertPlan = plan], cbi |-> createBindInstance(plan, elem)]

bindUpdate(t, elem) ==
    LET plan == IF t.updatePlan.query = NoQuery THEN buildUpdate(t) ELSE t.updatePlan
    IN [table |-> [t EXCEPT !.updatePlan = plan], cbi |-> createBindInstance(plan, elem)]

bindDelete(t, elem) ==
    LET plan == IF t.deletePlan.query = NoQuery THEN buildDelete(t) ELSE t.deletePlan
    IN [table |-> [t EXCEPT !.deletePlan = plan], cbi |-> createBindInstance(plan, elem)]

\* [table, plan]
bindGet(t) ==
    LET plan == IF t.getPlan.query = NoQuery THEN buildGet(t) ELSE t.getPlan
    IN [table |-> [t EXCEPT !.getPlan = plan], plan |-> plan]

----------------------------------------------------------------------------
(* The store behind Exec / queryRow *)

\* The table as CreateTables made it from the struct: its name, its columns,
\* its primary key column.
DbTable == "T"
DbCols == {"Id", "Name", "Version"}
DbKey == "Id"

\* The placeholders of q are $1..$Len(args), each used once.
ArgsFit(q, args) ==
    LET used == [i \in 1..(Len(q.vars) + Len(q.wvars)) |->
                    IF i <= Len(q.vars) THEN q.vars[i] ELSE q.wvars[i - Len(q.vars)]]
        ph == {i \in 1..Len(used) : used[i] # AutoIncrBindValue}
    IN /\ Cardinality(ph) = Len(args)
       /\ \A n \in 1..Len(args) : \E i \in ph : used[i] = n

WellFormed(q, args) ==
    /\ q.verb \in {"insert", "update", "delete", "select"}
    /\ q.table = DbTable
    /\ \A i \in 1..Len(q.cols) : q.cols[i] \in DbCols
    /\ \A i \in 1..Len(q.wcols) : q.wcols[i] \in DbCols
    /\ ArgsFit(q, args)

\* The rows the WHERE clause of q selects.
Matching(rws, q, args) ==
    {r \in rws : \A i \in 1..Len(q.wcols) : r[q.wcols[i]] = args[q.wvars[i]]}

\* Row r with the column list of q assigned from args; an auto-increment token
\* takes the generated id.
Assigned(r, q, args, id) ==
    [c \in DbCols |->
        IF \E i \in 1..Len(q.cols) : q.cols[i] = c
        THEN LET i == CHOOSE i \in 1..Len(q.cols) : q.cols[i] = c
             IN IF q.vars[i] = AutoIncrBindValue THEN id ELSE args[q.vars[i]]
        ELSE r[c]]

ZeroRow == [c \in DbCols |-> IF c = "Name" THEN "" ELSE 0]

\* One statement against the store: [rows, nextId, n, id, out, err].  n is
\* RowsAffected, id LastInsertId, out the rows a select returns; fail is the
\* driver failing on its own (connection lost, ...).
ExecSql(rws, nid, q, args, fail) ==
    LET bad == [rows |-> rws, nextId |-> nid, n |-> 0, id |-> 0, out |-> {}, err |-> TRUE]
    IN IF fail \/ ~WellFormed(q, args) THEN bad
       ELSE IF q.verb = "insert"
       THEN LET auto == \E i \in 1..Len(q.cols) : q.vars[i] = AutoIncrBindValue
                r == Assigned(ZeroRow, q, args, nid)
            IN IF \E o \in rws : o[DbKey] = r[DbKey] THEN bad
               ELSE [rows |-> rws \cup {r}, nextId |-> IF auto THEN nid + 1 ELSE nid,
                     n |-> 1, id |-> IF auto THEN nid ELSE 0, out |-> {}, err |-> FALSE]
       ELSE IF q.verb = "update"
       THEN LET m == Matching(rws, q, args)
            IN [rows |-> (rws \ m) \cup {Assigned(r, q, args, 0) : r \in m},
                nextId |-> nid, n |-> Cardinality(m), id |-> 0, out |-> {}, err |-> FALSE]
       ELSE IF q.verb = "delete"
       THEN LET m == Matching(rws, q, args)
            IN [rows |-> rws \ m, nextId |-> nid, n |-> Cardinality(m), id |-> 0,
                out |-> {}, err |-> FALSE]
       ELSE [rows |-> rws, nextId |-> nid, n |-> 0, id |-> 0,
             out |-> Matching(rws, q, args), err |-> FALSE]

\* A statement as the trace sees it, with what came back.
Stmt(q, args, res) == [query |-> q, args |-> args, n |-> res.n, err |-> res.err]

----------------------------------------------------------------------------
(* The engine: what insert / update / delete / get do for one record *)

\* What the collaborators of one record step do: whether each hook returns an
\* error and whether the driver fails the statement or the lookup.  A step
\* returns at the first of them that fails, so one failure per step covers all.
Faults == [pre : BOOLEAN, exec : BOOLEAN, post : BOOLEAN,
           look : BOOLEAN, postget : BOOLEAN]
Inputs == {in \in Faults :
             Cardinality({f \in DOMAIN in : in[f]}) <= 1}

NoOle == [TableName |-> "", Keys |-> <<>>, RowExists |-> FALSE, LocalVersion |-> 0]

\* A call of hook method name on the record, as the record's type defines it:
\* it returns nil or an error value of its own, here named after the hook.
HookCall(name, fails) == [name |-> name, err |-> IF fails THEN name ELSE "nil"]

\* runHook handing the caller nil whatever the hook returned.
runHook_Swallowed(name, fails) == "nil"

\* runHook: the error the hook method returned, or nil.
runHook(name, fails) == HookCall(name, fails).err

\* The outcome of one record step.
Out(t, rws, nid, elem, err, n, lg, ole, hs) ==
    [table |-> t, rows |-> rws, nextId |-> nid, elem |-> elem, err |-> err,
     n |-> n, log |-> lg, ole |-> ole, hooks |-> hs]

\* rows.Scan into a fresh struct: result column x goes to field argFields[x].
Scan(plan, row) ==
    [f \in DOMAIN ZeroStruct |->
        IF \E x \in 1..Len(plan.argFields) : plan.argFields[x] = f
        THEN row[plan.query.cols[CHOOSE x \in 1..Len(plan.argFields) : plan.argFields[x] = f]]
        ELSE ZeroStruct[f]]

\* row.Scan of the *sql.Row that queryRow returned: the driver's error, or
\* sql.ErrNoRows for an empty result, or nil.
RowScanErr(res) ==
    IF res.err THEN "Query" ELSE IF res.out = {} THEN "ErrNoRows" ELSE "nil"

\* get passing sql.ErrNoRows on to its caller.
swallowNoRows_Kept(err) == err

\* if err == sql.ErrNoRows { err = nil }
swallowNoRows(err) == IF err = "ErrNoRows" THEN "nil" ELSE err

\* [table, found, rec, err, log, hooks]: found = FALSE with err = "nil" is
\* (nil, nil).
get(t, rws, nid, keys, in) ==
    IF Len(t.keys) < 1
    THEN [table |-> t, found |-> FALSE, rec |-> ZeroStruct, err |-> "NoKeys",
          log |-> <<>>, hooks |-> <<>>]
    ELSE LET b == bindGet(t)
             res == ExecSql(rws, nid, b.plan.query, keys, in.look)
             lg == <<Stmt(b.plan.query, keys, res)>>
         IN IF RowScanErr(res) # "nil"
            THEN [table |-> b.table, found |-> FALSE, rec |-> ZeroStruct,
                  err |-> swallowNoRows(RowScanErr(res)), log |-> lg, hooks |-> <<>>]
            ELSE LET err == runHook("PostGet", in.postget)
                     hs == <<HookCall("PostGet", in.postget)>>
                 IN IF err # "nil"
                    THEN [table |-> b.table, found |-> FALSE, rec |-> ZeroStruct,
                          err |-> err, log |-> lg, hooks |-> hs]
                    ELSE [table |-> b.table, found |-> TRUE,
                          rec |-> Scan(b.plan, CHOOSE r \in res.out : TRUE),
                          err |-> "nil", log |-> lg, hooks |-> hs]

\* lockError without the "existing == nil" test: the row is always reported
\* as present.
lockError_RowAlwaysExists(t, rws, nid, existingVer, elem, keys, lg, hs, in) ==
    LET g == get(t, rws, nid, keys, in)
    IN IF g.err # "nil"
       THEN Out(g.table, rws, nid, elem, g.err, 0, lg \o g.log, NoOle, hs \o g.hooks)
       ELSE Out(g.table, rws, nid, elem, "OptimisticLockError", 0, lg \o g.log,
                [TableName |-> t.TableName, Keys |-> keys,
                 RowExists |-> TRUE, LocalVersion |-> existingVer], hs \o g.hooks)

\* lockError sending the statement of the step a second time before its lookup.
lockError_Retrying(t, rws, nid, existingVer, elem, keys, lg, hs, in) ==
    LET g == get(t, rws, nid, keys, in)
    IN IF g.err # "nil"
       THEN Out(g.table, rws, nid, elem, g.err, 0, lg \o lg \o g.log, NoOle, hs \o g.hooks)
       ELSE Out(g.table, rws, nid, elem, "OptimisticLockError", 0, lg \o lg \o g.log,
                [TableName |-> t.TableName, Keys |-> keys,
                 RowExists |-> g.found, LocalVersion |-> existingVer], hs \o g.hooks)

\* The outcome of a step that found no row affected for a versioned record.
lockError(t, rws, nid, existingVer, elem, keys, lg, hs, in) ==
    LET g == get(t, rws, nid, keys, in)
    IN IF g.err # "nil"
       THEN Out(g.table, rws, nid, elem, g.err, 0, lg \o g.log, NoOle, hs \o g.hooks)
       ELSE Out(g.table, rws, nid, elem, "OptimisticLockError", 0, lg \o g.log,
                [TableName |-> t.TableName, Keys |-> keys,
                 RowExists |-> g.found, LocalVersion |-> existingVer], hs \o g.hooks)

\* The conflict test with its threshold one too high.
isConflict_AboveOne(n, bi) == n = 0 /\ bi.existingVersion > 1

\* update without the write of the new version into the struct.
bumpVersion_Skipped(bi, elem) == elem

\* rows == 0 && bi.existingVersion > 0: zero rows affected counts as a
\* conflict only for a record that held a version above zero.
isConflict(n, bi) == n = 0 /\ bi.existingVersion > 0

\* After a successful update the struct's version field is existing + 1.
bumpVersion(bi, elem) ==
    IF bi.versField # ""
    THEN [elem EXCEPT ![bi.versField] = bi.existingVersion + 1]
    ELSE elem

deleteOne(t, rws, nid, elem, in) ==
    IF Len(t.keys) < 1 THEN Out(t, rws, nid, elem, "NoKeys", 0, <<>>, NoOle, <<>>)
    ELSE LET pre == runHook("PreDelete", in.pre)
             hpre == <<HookCall("PreDelete", in.pre)>>
         IN
         IF pre # "nil" THEN Out(t, rws, nid, elem, pre, 0, <<>>, NoOle, hpre)
         ELSE LET b == bindDelete(t, elem)
                  bi == b.cbi.bi
                  res == ExecSql(rws, nid, bi.query, bi.args, in.exec)
                  lg == <<Stmt(bi.query, bi.args, res)>>
              IN IF res.err
                 THEN Out(b.table, rws, nid, b.cbi.elem, "Exec", 0, lg, NoOle, hpre)
                 ELSE IF isConflict(res.n, bi)
                 THEN lockError(b.table, res.rows, nid, bi.existingVersion, b.cbi.elem,
                                bi.keys, lg, hpre, in)
                 ELSE Out(b.table, res.rows, nid, b.cbi.elem,
                          runHook("PostDelete", in.post), res.n, lg, NoOle,
                          Append(hpre, HookCall("PostDelete", in.post)))

updateOne(t, rws, nid, elem, in) ==
    IF Len(t.keys) < 1 THEN Out(t, rws, nid, elem, "NoKeys", 0, <<>>, NoOle, <<>>)
    ELSE LET pre == runHook("PreUpdate", in.pre)
             hpre == <<HookCall("PreUpdate", in.pre)>>
         IN
         IF pre # "nil" THEN Out(t, rws, nid, elem, pre, 0, <<>>, NoOle, hpre)
         ELSE LET b == bindUpdate(t, elem)
                  bi == b.cbi.bi
                  res == ExecSql(rws, nid, bi.query, bi.args, in.exec)
                  lg == <<Stmt(bi.query, bi.args, res)>>
              IN IF res.err
                 THEN Out(b.table, rws, nid, b.cbi.elem, "Exec", 0, lg, NoOle, hpre)
                 ELSE IF isConflict(res.n, bi)
                 THEN lockError(b.table, res.rows, nid, bi.existingVersion, b.cbi.elem,
                                bi.keys, lg, hpre, in)
                 ELSE Out(b.table, res.rows, nid, bumpVersion(bi, b.cbi.elem),
                          runHook("PostUpdate", in.post), res.n, lg, NoOle,
                          Append(hpre, HookCall("PostUpdate", in.post)))

\* insert without the write of the generated id into the struct.
setAutoIncr_Skipped(bi, elem, id) == elem

\* if bi.autoIncrIdx > -1: f.SetInt(id) on the plan's auto-increment field.
setAutoIncr(bi, elem, id) ==
    IF bi.autoIncrIdx > -1 THEN [elem EXCEPT ![bi.autoIncrFieldName] = id] ELSE elem

insertOne(t, rws, nid, elem, in) ==
    LET pre == runHook("PreInsert", in.pre)
        hpre == <<HookCall("PreInsert", in.pre)>>
    IN
    IF pre # "nil" THEN Out(t, rws, nid, elem, pre, 0, <<>>, NoOle, hpre)
    ELSE LET b == bindInsert(t, elem)
             bi == b.cbi.bi
             res == ExecSql(rws, nid, bi.query, bi.args, in.exec)
             lg == <<Stmt(bi.query, bi.args, res)>>
             keyed == setAutoIncr(bi, b.cbi.elem, res.id)
         IN IF res.err THEN Out(b.table, rws, nid, b.cbi.elem, "Exec", 0, lg, NoOle, hpre)
            ELSE Out(b.table, res.rows, res.nextId, keyed,
                     runHook("PostInsert", in.post), res.n, lg, NoOle,
                     Append(hpre, HookCall("PostInsert", in.post)))

----------------------------------------------------------------------------
(* The calls of a single caller on the DbMap *)

\* The key values a caller writes into a struct; 0 is the zero value.
Ids == {0, 1}
Versions == 0..MaxVersion

\* list ...interface{}: one to MaxBatch pointers.
Lists == UNION {[1..n -> Handles] : n \in 1..MaxBatch}

Idle == [op |-> "none", list |-> <<>>, i |-> 0, count |-> 0]
\* A DbMap before its first statement, for a dialect without InitString.
NoDb == [initialised |-> FALSE, InitString |-> ""]
NoRet == [op |-> "none", err |-> "nil", count |-> 0, at |-> 0, ole |-> NoOle]

Goroutines == {1, 2}
PlanNames == {"insert", "update", "delete", "get"}
\* A Transaction that Begin has not made yet.  drv counts the calls that
\* reached the driver's Commit / Rollback, calls the calls of
\* Transaction.Commit / Rollback, last is what the latest of them returned.
NoTx == [state |-> "none", closed |-> FALSE, drv |-> 0, calls |-> 0, last |-> "none"]
TxIds == 1..MaxTx
FieldGroups == {"query", "rest"}
IdleProc == [pc |-> "idle", op |-> "none", plan |-> EmptyPlan, todo |-> {}]

\* The caller is between calls and has taken the last call's result.
Ready == call.op = "none" /\ ret = NoRet

\* The caller takes the result of the call that returned.
Proceed ==
    /\ call.op = "none"
    /\ ret # NoRet
    /\ ret' = NoRet
    /\ log' = <<>>
    /\ hooks' = <<>>
    /\ UNCHANGED <<table, rows, nextId, recs, call, txs, procs, builds, epoch, tables, typed, dbmap>>

\* The caller fills a struct.
Assign(h, id, name, ver) ==
    /\ Ready
    /\ recs' = [recs EXCEPT ![h] = [Id |-> id, Name |-> name, Version |-> ver]]
    /\ UNCHANGED <<table, rows, nextId, call, ret, log, txs, procs, builds, epoch, hooks, tables, typed, dbmap>>

\* DbMap.Insert / Update / Delete(list...): entry into the loop over list.
StartCall(op, list) ==
    /\ Ready
    /\ call' = [op |-> op, list |-> list, i |-> 1, count |-> 0]
    /\ UNCHANGED <<table, rows, nextId, recs, ret, log, txs, procs, builds, epoch, hooks, tables, typed, dbmap>>

\* The cap on the counters: an insert or update of list leaves no version
\* above MaxVersion + 1 and draws no generated id above MaxId.
Capped(list) ==
    /\ \A i \in 1..Len(list) :
          recs[list[i]].Version + Cardinality({j \in 1..Len(list) : list[j] = list[i]})
             <= MaxVersion + 1
    /\ \A y \in 1..Len(table.columns) :
          table.columns[y].isAutoIncr => nextId + Len(list) - 1 <= MaxId

Insert(list) == Capped(list) /\ StartCall("insert", list)

Update(list) == Capped(list) /\ StartCall("update", list)

Delete(list) == StartCall("delete", list)

\* The loop returning the running count, not -1, next to an error.
Iterate_RunningCount(o) ==
    /\ table' = o.table
    /\ rows' = o.rows
    /\ nextId' = o.nextId
    /\ recs' = [recs EXCEPT ![call.list[call.i]] = o.elem]
    /\ log' = o.log
    /\ hooks' = o.hooks
    /\ IF o.err # "nil"
       THEN /\ ret' = [op |-> call.op, err |-> o.err, count |-> call.count,
                       at |-> call.i, ole |-> o.ole]
            /\ call' = Idle
       ELSE IF call.i = Len(call.list)
       THEN /\ ret' = [op |-> call.op, err |-> "nil",
                       count |-> IF call.op = "insert" THEN 0 ELSE call.count + o.n,
                       at |-> call.i, ole |-> NoOle]
            /\ call' = Idle
       ELSE /\ call' = [call EXCEPT !.i = @ + 1, !.count = @ + o.n]
            /\ UNCHANGED ret
    /\ UNCHANGED <<txs, procs, builds, epoch, tables, typed, dbmap>>

\* The loop going on to the next record after a record failed.
Iterate_PastFailure(o) ==
    /\ table' = o.table
    /\ rows' = o.rows
    /\ nextId' = o.nextId
    /\ recs' = [recs EXCEPT ![call.list[call.i]] = o.elem]
    /\ log' = o.log
    /\ hooks' = o.hooks
    /\ IF call.i = Len(call.list)
       THEN /\ ret' = [op |-> call.op, err |-> o.err,
                       count |-> IF call.op = "insert" THEN 0
                                 ELSE IF o.err # "nil" THEN -1 ELSE call.count + o.n,
                       at |-> call.i, ole |-> o.ole]
            /\ call' = Idle
       ELSE /\ call' = [call EXCEPT !.i = @ + 1, !.count = @ + o.n]
            /\ UNCHANGED ret
    /\ UNCHANGED <<txs, procs, builds, epoch, tables, typed, dbmap>>

\* One iteration of the loop: the outcome o of the record at call.i is applied,
\* and the call returns on an error or after the last record.
Iterate(o) ==
    /\ table' = o.table
    /\ rows' = o.rows
    /\ nextId' = o.nextId
    /\ recs' = [recs EXCEPT ![call.list[call.i]] = o.elem]
    /\ log' = o.log
    /\ hooks' = o.hooks
    /\ IF o.err # "nil"
       THEN /\ ret' = [op |-> call.op, err |-> o.err,
                       count |-> IF call.op = "insert" THEN 0 ELSE -1,
                       at |-> call.i, ole |-> o.ole]
            /\ call' = Idle
       ELSE IF call.i = Len(call.list)
       THEN /\ ret' = [op |-> call.op, err |-> "nil",
                       count |-> IF call.op = "insert" THEN 0 ELSE call.count + o.n,
                       at |-> call.i, ole |-> NoOle]
            /\ call' = Idle
       ELSE /\ call' = [call EXCEPT !.i = @ + 1, !.count = @ + o.n]
            /\ UNCHANGED ret
    /\ UNCHANGED <<txs, procs, builds, epoch, tables, typed, dbmap>>

insert ==
    /\ call.op = "insert"
    /\ \E in \in Inputs :
          Iterate(insertOne(table, rows, nextId, recs[call.list[call.i]], in))

update ==
    /\ call.op = "update"
    /\ \E in \in Inputs :
          Iterate(updateOne(table, rows, nextId, recs[call.list[call.i]], in))

delete ==
    /\ call.op = "delete"
    /\ \E in \in Inputs :
          Iterate(deleteOne(table, rows, nextId, recs[call.list[call.i]], in))

\* DbMap.Get(i, key), the result stored through the caller's pointer h.
Get(h, key) ==
    /\ Ready
    /\ \E in \in {x \in Inputs : ~x.pre /\ ~x.exec /\ ~x.post} :
          LET g == get(table, rows, nextId, <<key>>, in)
          IN /\ table' = g.table
             /\ recs' = IF g.found THEN [recs EXCEPT ![h] = g.rec] ELSE recs
             /\ log' = g.log
             /\ hooks' = g.hooks
             /\ ret' = [op |-> "get", err |-> g.err, count |-> 0,
                        at |-> IF g.found THEN 1 ELSE 0, ole |-> NoOle]
    /\ UNCHANGED <<rows, nextId, call, txs, procs, builds, epoch, tables, typed, dbmap>>

\* The state after AddTableWithName(T{}, "T").SetKeys(false, "Id") and
\* CreateTables, with fresh structs.
Init ==
    /\ table = SetKeys(AddTableWithName(DbTable), FALSE, <<"Id">>)
    /\ rows = {}
    /\ nextId = 1
    /\ recs = [h \in Handles |-> [Id |-> 0, Name |-> "a", Version |-> 0]]
    /\ call = Idle
    /\ ret = NoRet
    /\ log = <<>>
    /\ txs = [t \in TxIds |-> NoTx]
    /\ procs = [g \in Goroutines |-> IdleProc]
    /\ builds = [p \in PlanNames |-> 0]
    /\ epoch = 0
    /\ typed = 0
    /\ dbmap = NoDb
    /\ hooks = <<>>
    /\ tables = <<>>

Next ==
    \/ \E h \in Handles, id \in Ids, name \in Names, ver \in Versions :
          Assign(h, id, name, ver)
    \/ \E list \in Lists : Insert(list)
    \/ \E list \in Lists : Update(list)
    \/ \E list \in Lists : Delete(list)
    \/ insert
    \/ update
    \/ delete
    \/ \E h \in Handles, key \in Ids : Get(h, key)
    \/ Proceed

Spec == Init /\ [][Next]_vars

----------------------------------------------------------------------------
(* Metadata mutators against the plan cache: SpecMeta *)

\* The cached plan of verb p and the table with it replaced.
CachedPlan(t, p) ==
    IF p = "insert" THEN t.insertPlan
    ELSE IF p = "update" THEN t.updatePlan
    ELSE IF p = "delete" THEN t.deletePlan
    ELSE t.getPlan

SetCached(t, p, plan) ==
    IF p = "insert" THEN [t EXCEPT !.insertPlan = plan]
    ELSE IF p = "update" THEN [t EXCEPT !.updatePlan = plan]
    ELSE IF p = "delete" THEN [t EXCEPT !.deletePlan = plan]
    ELSE [t EXCEPT !.getPlan = plan]

\* The build body of verb p.
BuildPlan(t, p) ==
    IF p = "insert" THEN buildInsert(t)
    ELSE IF p = "update" THEN buildUpdate(t)
    ELSE IF p = "delete" THEN buildDelete(t)
    ELSE buildGet(t)

Cleared(t) == \A p \in PlanNames : CachedPlan(t, p) = EmptyPlan

\* The names a caller renames a column to, the key lists it passes to SetKeys
\* and the integer fields it passes to SetVersionCol.
ColNames == <<{"Id", "id2"}, {"Name", "name2"}, {"Version", "version2"}>>
KeyLists == {<<"Id">>, <<"Name">>, <<"Name", "Id">>}
VersionFields == {"Id", "Version"}

\* What a mutator call leaves for the observer: its name and the number of
\* plans that were cached when it was called.
Mark(op) ==
    [NoRet EXCEPT !.op = op,
                  !.count = Cardinality({p \in PlanNames : CachedPlan(table, p) # EmptyPlan})]

\* A metadata mutator that leaves the plans alone.
Mutate(op, t) ==
    /\ epoch < MaxMutations
    /\ table' = t
    /\ ret' = Mark(op)
    /\ epoch' = epoch + 1
    /\ UNCHANGED <<rows, nextId, recs, call, log, txs, procs, builds, hooks, tables, typed, dbmap>>

\* A metadata mutator that ends in ResetSql.
MutateReset(op, t) ==
    /\ epoch < MaxMutations
    /\ table' = t
    /\ ret' = Mark(op)
    /\ epoch' = epoch + 1
    /\ builds' = [p \in PlanNames |-> 0]
    /\ UNCHANGED <<rows, nextId, recs, call, log, txs, procs, hooks, tables, typed, dbmap>>

CallRename(y, colname) == Mutate("Rename", Rename(table, y, colname))

CallSetTransient(y, b) == Mutate("SetTransient", SetTransient(table, y, b))

CallSetUnique(y, b) == Mutate("SetUnique", SetUnique(table, y, b))

CallSetKeys(isAutoIncr, fieldNames) ==
    /\ isAutoIncr => Len(fieldNames) = 1
    /\ MutateReset("SetKeys", SetKeys(table, isAutoIncr, fieldNames))

CallSetVersionCol(field) ==
    MutateReset("SetVersionCol", SetVersionCol(table, field))

CallResetSql ==
    /\ ~Cleared(table)
    /\ table' = ResetSql(table)
    /\ ret' = Mark("ResetSql")
    /\ builds' = [p \in PlanNames |-> 0]
    /\ UNCHANGED <<rows, nextId, recs, call, log, txs, procs, epoch, hooks, tables, typed, dbmap>>

\* A call of bindInsert / bindUpdate / bindDelete / bindGet for struct p1.
CallBind(p) ==
    /\ table' = IF p = "insert" THEN bindInsert(table, recs["p1"]).table
                ELSE IF p = "update" THEN bindUpdate(table, recs["p1"]).table
                ELSE IF p = "delete" THEN bindDelete(table, recs["p1"]).table
                ELSE bindGet(table).table
    /\ ret' = Mark(p)
    /\ builds' = IF CachedPlan(table, p).query = NoQuery
                 THEN [builds EXCEPT ![p] = @ + 1]
                 ELSE builds
    /\ UNCHANGED <<rows, nextId, recs, call, log, txs, procs, epoch, hooks, tables, typed, dbmap>>

NextMeta ==
    \/ \E y \in 1..Len(Fields) : \E colname \in ColNames[y] : CallRename(y, colname)
    \/ \E y \in 1..Len(Fields), b \in BOOLEAN : CallSetTransient(y, b)
    \/ \E y \in 1..Len(Fields), b \in BOOLEAN : CallSetUnique(y, b)
    \/ \E isAutoIncr \in BOOLEAN, fieldNames \in KeyLists :
          CallSetKeys(isAutoIncr, fieldNames)
    \/ \E field \in VersionFields : CallSetVersionCol(field)
    \/ CallResetSql
    \/ \E p \in PlanNames : CallBind(p)

SpecMeta == Init /\ [][NextMeta]_vars

----------------------------------------------------------------------------
(* Goroutines inside the bind functions: SpecRace *)

\* The copy of field group f of plan src into plan dst.  A bindPlan is
\* several words; with a writer running, a copy can get the query of one
\* plan value and the remaining fields of another.
CopyGroup(dst, src, f) ==
    IF f = "query" THEN [dst EXCEPT !.query = src.query]
    ELSE [src EXCEPT !.query = dst.query]

\* Goroutine g calls the bind function of verb p.
EnterBind(g, p) ==
    /\ procs[g].pc = "idle"
    /\ procs' = [procs EXCEPT ![g] = [pc |-> "load", op |-> p, plan |-> EmptyPlan,
                                      todo |-> FieldGroups]]
    /\ UNCHANGED <<table, rows, nextId, recs, call, ret, log, txs, builds, epoch, hooks, tables, typed, dbmap>>

\* plan := t.xPlan, one field group at a time.
LoadPlan(g, f) ==
    /\ procs[g].pc = "load"
    /\ f \in procs[g].todo
    /\ procs' = [procs EXCEPT
                    ![g].plan = CopyGroup(@, CachedPlan(table, procs[g].op), f),
                    ![g].todo = @ \ {f},
                    ![g].pc = IF procs[g].todo = {f} THEN "check" ELSE "load"]
    /\ UNCHANGED <<table, rows, nextId, recs, call, ret, log, txs, builds, epoch, hooks, tables, typed, dbmap>>

\* if plan.query == ""
CheckPlan(g) ==
    /\ procs[g].pc = "check"
    /\ procs' = [procs EXCEPT
                    ![g].pc = IF procs[g].plan.query = NoQuery THEN "build" ELSE "bind"]
    /\ UNCHANGED <<table, rows, nextId, recs, call, ret, log, txs, builds, epoch, hooks, tables, typed, dbmap>>

\* The build body, into the goroutine's local plan.
RunBuild(g) ==
    /\ procs[g].pc = "build"
    /\ procs' = [procs EXCEPT ![g].plan = BuildPlan(table, procs[g].op),
                              ![g].pc = "store",
                              ![g].todo = FieldGroups]
    /\ builds' = [builds EXCEPT ![procs[g].op] = @ + 1]
    /\ UNCHANGED <<table, rows, nextId, recs, call, ret, log, txs, epoch, hooks, tables, typed, dbmap>>

\* t.xPlan = plan, one field group at a time.
StorePlan(g, f) ==
    /\ procs[g].pc = "store"
    /\ f \in procs[g].todo
    /\ table' = SetCached(table, procs[g].op,
                          CopyGroup(CachedPlan(table, procs[g].op), procs[g].plan, f))
    /\ procs' = [procs EXCEPT
                    ![g].todo = @ \ {f},
                    ![g].pc = IF procs[g].todo = {f} THEN "bind" ELSE "store"]
    /\ UNCHANGED <<rows, nextId, recs, call, ret, log, txs, builds, epoch, hooks, tables, typed, dbmap>>

\* return plan.createBindInstance(elem): the statement the goroutine goes on
\* to execute is left in log.
UsePlan(g) ==
    /\ procs[g].pc = "bind"
    /\ log' = <<createBindInstance(procs[g].plan, recs["p1"]).bi>>
    /\ procs' = [procs EXCEPT ![g] = IdleProc]
    /\ UNCHANGED <<table, rows, nextId, recs, call, ret, txs, builds, epoch, hooks, tables, typed, dbmap>>

NextRace ==
    \/ \E g \in Goroutines, p \in PlanNames : EnterBind(g, p)
    \/ \E g \in Goroutines, f \in FieldGroups : LoadPlan(g, f)
    \/ \E g \in Goroutines : CheckPlan(g)
    \/ \E g \in Goroutines : RunBuild(g)
    \/ \E g \in Goroutines, f \in FieldGroups : StorePlan(g, f)
    \/ \E g \in Goroutines : UsePlan(g)

SpecRace == Init /\ [][NextRace]_vars

----------------------------------------------------------------------------
(* Transaction.Commit and Transaction.Rollback: SpecTx *)

\* DbMap.Begin: the driver opens a transaction or fails.
Begin(t) ==
    /\ txs[t].state = "none"
    /\ \E failed \in BOOLEAN :
          txs' = [txs EXCEPT ![t] =
                    IF failed THEN [NoTx EXCEPT !.last = "BeginErr"]
                    ELSE [NoTx EXCEPT !.state = "open", !.last = "nil"]]
    /\ UNCHANGED <<table, rows, nextId, recs, call, ret, log, procs, builds, epoch, hooks, tables, typed, dbmap>>

\* Transaction.Commit: the first call of Commit or Rollback closes the
\* Transaction and returns what the driver's Commit returns; a later one
\* returns sql.ErrTxDone.
Commit(t) ==
    /\ txs[t].state # "none"
    /\ txs[t].calls < MaxCalls
    /\ IF ~txs[t].closed
       THEN \E failed \in BOOLEAN :
               txs' = [txs EXCEPT ![t] =
                         [state |-> IF failed THEN "failed" ELSE "committed",
                          closed |-> TRUE,
                          drv |-> txs[t].drv + 1,
                          calls |-> txs[t].calls + 1,
                          last |-> IF failed THEN "DriverErr" ELSE "nil"]]
       ELSE txs' = [txs EXCEPT ![t].calls = @ + 1, ![t].last = "ErrTxDone"]
    /\ UNCHANGED <<table, rows, nextId, recs, call, ret, log, procs, builds, epoch, hooks, tables, typed, dbmap>>

\* Rollback without "t.closed = true".
Rollback_StaysOpen(t) ==
    /\ txs[t].state # "none"
    /\ txs[t].calls < MaxCalls
    /\ IF ~txs[t].closed
       THEN \E failed \in BOOLEAN :
               txs' = [txs EXCEPT ![t] =
                         [state |-> IF failed THEN "failed" ELSE "rolledback",
                          closed |-> FALSE,
                          drv |-> txs[t].drv + 1,
                          calls |-> txs[t].calls + 1,
                          last |-> IF failed THEN "DriverErr" ELSE "nil"]]
       ELSE txs' = [txs EXCEPT ![t].calls = @ + 1, ![t].last = "ErrTxDone"]
    /\ UNCHANGED <<table, rows, nextId, recs, call, ret, log, procs, builds, epoch, hooks, tables, typed, dbmap>>

\* Transaction.Rollback, as Commit with the driver's Rollback.
Rollback(t) ==
    /\ txs[t].state # "none"
    /\ txs[t].calls < MaxCalls
    /\ IF ~txs[t].closed
       THEN \E failed \in BOOLEAN :
               txs' = [txs EXCEPT ![t] =
                         [state |-> IF failed THEN "failed" ELSE "rolledback",
                          closed |-> TRUE,
                          drv |-> txs[t].drv + 1,
                          calls |-> txs[t].calls + 1,
                          last |-> IF failed THEN "DriverErr" ELSE "nil"]]
       ELSE txs' = [txs EXCEPT ![t].calls = @ + 1, ![t].last = "ErrTxDone"]
    /\ UNCHANGED <<table, rows, nextId, recs, call, ret, log, procs, builds, epoch, hooks, tables, typed, dbmap>>

NextTx ==
    \/ \E t \in TxIds : Begin(t)
    \/ \E t \in TxIds : Commit(t)
    \/ \E t \in TxIds : Rollback(t)

SpecTx == Init /\ [][NextTx]_vars

----------------------------------------------------------------------------
(* Records through the store and back, for either kind of key: SpecData *)

\* The state after AddTableWithName(T{}, "T").SetKeys(isAutoIncr, "Id"), with
\* or without ColMap("Name").SetTransient(true), and CreateTables.
InitData ==
    /\ \E isAutoIncr \in BOOLEAN, transient \in BOOLEAN :
          table = SetTransient(SetKeys(AddTableWithName(DbTable), isAutoIncr, <<"Id">>),
                               colMapOrNil(AddTableWithName(DbTable), "Name"), transient)
    /\ rows = {}
    /\ nextId = 1
    /\ recs = [h \in Handles |-> [Id |-> 0, Name |-> "a", Version |-> 0]]
    /\ call = Idle
    /\ ret = NoRet
    /\ log = <<>>
    /\ txs = [t \in TxIds |-> NoTx]
    /\ procs = [g \in Goroutines |-> IdleProc]
    /\ builds = [p \in PlanNames |-> 0]
    /\ epoch = 0
    /\ hooks = <<>>
    /\ tables = <<>>
    /\ typed = 0
    /\ dbmap = NoDb

\* The query text SelectOne is given: "select * from T" with no argument, or
\* "select * from T where Id=$1" with the key as its argument.
SelQuery(args) ==
    [NoQuery EXCEPT !.verb = "select", !.table = DbTable,
                    !.cols = <<"Id", "Name", "Version">>,
                    !.wcols = IF args = <<>> THEN <<>> ELSE <<"Id">>,
                    !.wvars = IF args = <<>> THEN <<>> ELSE <<BindVar(0)>>]

\* SelectOne with a pointer to a struct as holder: [holder, err, count, log,
\* hooks].  hookedselect returns one struct per row, each column scanned into
\* the field of its name, after PostGet ran on each; count is len(list).
selectOne(rws, nid, holder, args, in) ==
    LET res == ExecSql(rws, nid, SelQuery(args), args, in.look)
        lg == <<Stmt(SelQuery(args), args, res)>>
        list == {[f \in DOMAIN ZeroStruct |-> r[f]] : r \in res.out}
        hs == IF list = {} THEN <<>> ELSE <<HookCall("PostGet", in.postget)>>
    IN IF res.err
       THEN [holder |-> holder, err |-> "Query", count |-> 0, log |-> lg, hooks |-> <<>>]
       ELSE IF list # {} /\ runHook("PostGet", in.postget) # "nil"
       THEN [holder |-> holder, err |-> runHook("PostGet", in.postget), count |-> 0,
             log |-> lg, hooks |-> hs]
       ELSE IF Cardinality(list) > 1
       THEN [holder |-> holder, err |-> "MultipleRows", count |-> Cardinality(list),
             log |-> lg, hooks |-> hs]
       ELSE IF Cardinality(list) = 1
       THEN [holder |-> CHOOSE v \in list : TRUE, err |-> "nil", count |-> 1,
             log |-> lg, hooks |-> hs]
       ELSE [holder |-> holder, err |-> "ErrNoRows", count |-> 0, log |-> lg,
             hooks |-> hs]

\* What SelectOne leaves for holder h.
Selected(h, o) ==
    /\ recs' = [recs EXCEPT ![h] = o.holder]
    /\ log' = o.log
    /\ hooks' = o.hooks
    /\ ret' = [op |-> "selectone", err |-> o.err, count |-> 0, at |-> o.count,
               ole |-> NoOle]

\* dbmap.SelectOne(&recs[h], query, args...)
SelectOne(h, args) ==
    /\ Ready
    /\ \E in \in {x \in Inputs : ~x.pre /\ ~x.exec /\ ~x.post} :
          Selected(h, selectOne(rows, nextId, recs[h], args, in))
    /\ UNCHANGED <<table, rows, nextId, call, txs, procs, builds, epoch, tables, typed, dbmap>>

\* The calls of Next on one record at a time, without Delete, and SelectOne.
NextData ==
    \/ \E h \in Handles, id \in Ids, name \in Names, ver \in Versions :
          Assign(h, id, name, ver)
    \/ \E h \in Handles : Insert(<<h>>)
    \/ \E h \in Handles : Update(<<h>>)
    \/ insert
    \/ update
    \/ \E h \in Handles, key \in Ids : Get(h, key)
    \/ \E h \in Handles, args \in {<<>>} \cup {<<key>> : key \in Ids} : SelectOne(h, args)
    \/ Proceed

SpecData == InitData /\ [][NextData]_vars

\* ColMap(field).SetTransient(b), called between two calls on the DbMap.
MarkTransient(y, b) == Ready /\ CallSetTransient(y, b)

\* One struct written and one read back, with markings in between.
NextMark ==
    \/ \E id \in Ids, name \in Names, ver \in Versions : Assign("p1", id, name, ver)
    \/ Insert(<<"p1">>)
    \/ Update(<<"p1">>)
    \/ insert
    \/ update
    \/ \E key \in Ids : Get("p2", key)
    \/ Proceed
    \/ \E y \in 1..Len(Fields), b \in BOOLEAN : MarkTransient(y, b)

SpecMark == Init /\ [][NextMark]_vars

----------------------------------------------------------------------------
(* The registry and the typed operations that look a type up: SpecReg *)

\* Struct types of the shape of ZeroStruct, and the names AddTableWithName is
\* called with ("" is AddTable: the type's own name).
Types == {"T", "U"}
RegNames == {"", "V"}

\* The index in m.tables of the first TableMap of type ty; 0 is nil.
tableOrNil(tbls, ty) ==
    LET hits == {i \in 1..Len(tbls) : tbls[i].gotype = ty}
    IN IF hits = {} THEN 0 ELSE CHOOSE i \in hits : \A j \in hits : i <= j

\* AddTableWithName without the search for an existing TableMap of the type.
DbMap_AddTableWithName_Appends(tbls, ty, name) ==
    LET nm == IF name = "" THEN ty ELSE name
    IN [tables |-> Append(tbls, [gotype |-> ty, tmap |-> AddTableWithName(nm)]),
        at |-> Len(tbls) + 1]

\* DbMap.AddTableWithName on the registry: [tables, at], at the index of the
\* TableMap returned.
DbMap_AddTableWithName(tbls, ty, name) ==
    LET nm == IF name = "" THEN ty ELSE name
        at == tableOrNil(tbls, ty)
    IN IF at # 0
       THEN [tables |-> [tbls EXCEPT ![at].tmap.TableName = nm], at |-> at]
       ELSE [tables |-> Append(tbls, [gotype |-> ty, tmap |-> AddTableWithName(nm)]),
             at |-> Len(tbls) + 1]

\* tableFor returning an error value for a type that is not registered.
tableFor_ErrorForUnknown(tbls, ty, checkPK) ==
    LET at == tableOrNil(tbls, ty)
    IN IF at = 0 THEN [at |-> 0, err |-> "NotRegistered"]
       ELSE IF checkPK /\ Len(tbls[at].tmap.keys) < 1 THEN [at |-> 0, err |-> "NoKeys"]
       ELSE [at |-> at, err |-> "nil"]

\* tableFor panicking for a table without keys.
tableFor_PanicForNoKeys(tbls, ty, checkPK) ==
    LET at == tableOrNil(tbls, ty)
    IN IF at = 0 THEN [at |-> 0, err |-> "panic"]
       ELSE IF checkPK /\ Len(tbls[at].tmap.keys) < 1 THEN [at |-> 0, err |-> "panic"]
       ELSE [at |-> at, err |-> "nil"]

\* DbMap.tableFor: [at, err]; err = "panic" is the panic for a type without
\* a table, "NoKeys" the error returned for a table without keys.
tableFor(tbls, ty, checkPK) ==
    LET at == tableOrNil(tbls, ty)
    IN IF at = 0 THEN [at |-> 0, err |-> "panic"]
       ELSE IF checkPK /\ Len(tbls[at].tmap.keys) < 1 THEN [at |-> 0, err |-> "NoKeys"]
       ELSE [at |-> at, err |-> "nil"]

\* The "create table" statement of createTables for TableMap t.
CreateQuery(t) ==
    [NoQuery EXCEPT !.verb = "create", !.table = t.TableName,
                    !.cols = [y \in 1..Len(t.columns) |-> t.columns[y].ColumnName]]

CallAddTableWithName(ty, name) ==
    LET r == DbMap_AddTableWithName(tables, ty, name)
    IN /\ tables' = r.tables
       /\ ret' = [NoRet EXCEPT !.op = "AddTableWithName", !.at = r.at]
       /\ log' = <<>>
       /\ hooks' = <<>>
       /\ UNCHANGED <<table, rows, nextId, recs, call, txs, procs, builds, epoch, typed, dbmap>>

\* t.SetKeys(false, "Id") on the TableMap of a registered type.
CallSetKeysOf(ty) ==
    /\ tableOrNil(tables, ty) # 0
    /\ tables' = [tables EXCEPT ![tableOrNil(tables, ty)].tmap = SetKeys(@, FALSE, <<"Id">>)]
    /\ ret' = [NoRet EXCEPT !.op = "SetKeys", !.at = tableOrNil(tables, ty)]
    /\ log' = <<>>
    /\ hooks' = <<>>
    /\ UNCHANGED <<table, rows, nextId, recs, call, txs, procs, builds, epoch, typed, dbmap>>

\* The "drop table" statement of dropTables for TableMap t.
DropQuery(t) ==
    [NoQuery EXCEPT !.verb = "drop", !.table = t.TableName]

\* The statements of a loop over m.tables that stops at the first one the
\* driver fails (failAt; 0 when none fails).
Sweep(verb, failAt) ==
    [i \in 1..(IF failAt = 0 THEN Len(tables) ELSE failAt) |->
       [query |-> IF verb = "create" THEN CreateQuery(tables[i].tmap)
                  ELSE DropQuery(tables[i].tmap),
        args |-> <<>>, n |-> 0, err |-> i = failAt]]

\* DbMap.CreateTables.
CallCreateTables(failAt) ==
    /\ tables # <<>>
    /\ log' = Sweep("create", failAt)
    /\ ret' = [NoRet EXCEPT !.op = "CreateTables",
                            !.err = IF failAt = 0 THEN "nil" ELSE "Exec"]
    /\ hooks' = <<>>
    /\ UNCHANGED <<table, rows, nextId, recs, call, txs, procs, builds, epoch, tables, typed, dbmap>>

\* DbMap.CreateTablesIfNotExists over createTables as src/unnamed/part_000 has
\* it: the loop breaks at the first failing statement, but `_, err := m.Exec(ddl)`
\* declares an err of its own inside the loop body, and `return err` after the
\* loop returns the outer err, which nothing has assigned.
CallCreateTablesIfNotExists(failAt) ==
    /\ tables # <<>>
    /\ log' = Sweep("create", failAt)
    /\ ret' = [NoRet EXCEPT !.op = "CreateTablesIfNotExists", !.err = "nil"]
    /\ hooks' = <<>>
    /\ UNCHANGED <<table, rows, nextId, recs, call, txs, procs, builds, epoch, tables, typed, dbmap>>

\* DbMap.DropTables.
CallDropTables(failAt) ==
    /\ tables # <<>>
    /\ log' = Sweep("drop", failAt)
    /\ ret' = [NoRet EXCEPT !.op = "DropTables",
                            !.err = IF failAt = 0 THEN "nil" ELSE "Exec"]
    /\ hooks' = <<>>
    /\ UNCHANGED <<table, rows, nextId, recs, call, txs, procs, builds, epoch, tables, typed, dbmap>>

\* What one record step of verb op does for the TableMap t.
StepOf(op, t, in) ==
    IF op = "insert" THEN insertOne(t, rows, nextId, recs["p1"], in)
    ELSE IF op = "update" THEN updateOne(t, rows, nextId, recs["p1"], in)
    ELSE deleteOne(t, rows, nextId, recs["p1"], in)

\* The typed call refused by tableFor: nothing but the return value changes.
Refused(op, err) ==
    /\ ret' = [NoRet EXCEPT !.op = op, !.err = err,
                            !.count = IF op \in {"update", "delete"} THEN -1 ELSE 0,
                            !.at = IF op = "get" THEN 0 ELSE 1]
    /\ log' = <<>>
    /\ hooks' = <<>>
    /\ UNCHANGED <<rows, nextId, recs, tables>>

\* The record step o of verb op, run for the TableMap at index at.
Written(op, at, o) ==
    /\ tables' = [tables EXCEPT ![at].tmap = o.table]
    /\ rows' = o.rows
    /\ nextId' = o.nextId
    /\ recs' = [recs EXCEPT !["p1"] = o.elem]
    /\ log' = o.log
    /\ hooks' = o.hooks
    /\ ret' = [op |-> op, err |-> o.err,
               count |-> IF op = "insert" THEN 0 ELSE IF o.err # "nil" THEN -1 ELSE o.n,
               at |-> 1, ole |-> o.ole]

TypedWriteFor(op, tf) ==
    IF tf.err # "nil"
    THEN Refused(op, tf.err)
    ELSE \E in \in Inputs : Written(op, tf.at, StepOf(op, tables[tf.at].tmap, in))

\* Insert, Update or Delete of the one struct p1, taken as a value of type ty.
TypedWrite(op, ty) ==
    /\ typed < MaxTyped
    /\ op \in {"insert", "update"} => recs["p1"].Version <= MaxVersion
    /\ TypedWriteFor(op, tableFor(tables, ty, op # "insert"))
    /\ typed' = typed + 1
    /\ UNCHANGED <<table, call, txs, procs, builds, epoch, dbmap>>

\* The result g of get, for the TableMap at index at, read into p2.
Fetched(at, g) ==
    /\ tables' = [tables EXCEPT ![at].tmap = g.table]
    /\ recs' = IF g.found THEN [recs EXCEPT !["p2"] = g.rec] ELSE recs
    /\ log' = g.log
    /\ hooks' = g.hooks
    /\ ret' = [op |-> "get", err |-> g.err, count |-> 0,
               at |-> IF g.found THEN 1 ELSE 0, ole |-> NoOle]
    /\ UNCHANGED <<rows, nextId>>

TypedGetFor(key, tf) ==
    IF tf.err # "nil"
    THEN Refused("get", tf.err)
    ELSE \E in \in {x \in Inputs : ~x.pre /\ ~x.exec /\ ~x.post} :
           Fetched(tf.at, get(tables[tf.at].tmap, rows, nextId, <<key>>, in))

\* Get of a value of type ty by key.
TypedGet(ty, key) ==
    /\ typed < MaxTyped
    /\ TypedGetFor(key, tableFor(tables, ty, TRUE))
    /\ typed' = typed + 1
    /\ UNCHANGED <<table, call, txs, procs, builds, epoch, dbmap>>

NextReg ==
    \/ \E ty \in Types, name \in RegNames : CallAddTableWithName(ty, name)
    \/ \E ty \in Types : CallSetKeysOf(ty)
    \/ \E failAt \in 0..Len(tables) : CallCreateTables(failAt)
    \/ \E failAt \in 0..Len(tables) : CallCreateTablesIfNotExists(failAt)
    \/ \E failAt \in 0..Len(tables) : CallDropTables(failAt)
    \/ \E op \in {"insert", "update", "delete"}, ty \in Types : TypedWrite(op, ty)
    \/ \E ty \in Types, key \in Ids : TypedGet(ty, key)

SpecReg == Init /\ [][NextReg]_vars

----------------------------------------------------------------------------
(* Struct types with embedded structs: SpecEmbed *)

\* A struct type is the sequence of its fields.  A field has its name, its
\* `db` tag and, when it is an embedded struct (f.Anonymous), the embedded
\* type; a struct declares no two fields of one name.
FieldNames == {"Id", "Version"}
Tags == {"", "-", "c"}
EmbeddedName == "Base"
Plain(name, tag) == [name |-> name, tag |-> tag, anonymous |-> FALSE, type |-> <<>>]
Embedded(ty) == [name |-> EmbeddedName, tag |-> "", anonymous |-> TRUE, type |-> ty]
PlainFields == {Plain(name, tag) : name \in FieldNames, tag \in Tags}
FlatTypes ==
    {<<f>> : f \in PlainFields}
       \cup {p \in PlainFields \X PlainFields : p[1].name # p[2].name}
StructTypes ==
    FlatTypes
       \cup {<<Embedded(ty)>> : ty \in FlatTypes}
       \cup {<<f, Embedded(ty)>> : f \in PlainFields, ty \in FlatTypes}
       \cup {<<Embedded(ty), f>> : f \in PlainFields, ty \in FlatTypes}

\* The ColumnMap readStructColumns makes for the plain field f.
ColumnOf(f) ==
    LET columnName == IF f.tag = "" THEN f.name ELSE f.tag
    IN [ColumnName |-> columnName, Transient |-> columnName = "-", Unique |-> FALSE,
        fieldName |-> f.name, isPK |-> FALSE, isAutoIncr |-> FALSE]

\* readStructColumns for a type with embedded structs: the loop over the
\* fields of t from field i on, acc holding cols and the version column.
RECURSIVE readStructFields(_, _, _)
readStructFields(t, i, acc) ==
    IF i > Len(t) THEN acc
    ELSE LET f == t[i] IN
         IF f.anonymous
         THEN LET sub == readStructFields(f.type, 1, [cols |-> <<>>, version |-> 0])
              IN readStructFields(t, i + 1,
                    [cols |-> acc.cols \o sub.cols,
                     version |-> IF sub.version # 0 THEN Len(acc.cols) + sub.version
                                 ELSE acc.version])
         ELSE readStructFields(t, i + 1,
                    [cols |-> Append(acc.cols, ColumnOf(f)),
                     version |-> IF f.name = "Version" THEN Len(acc.cols) + 1
                                 ELSE acc.version])

\* AddTableWithName(S{}, "S") for a struct type S that is not registered.
AddStruct(ty) ==
    /\ tableOrNil(tables, ty) = 0
    /\ Len(tables) < MaxTables
    /\ LET r == readStructFields(ty, 1, [cols |-> <<>>, version |-> 0])
       IN tables' = Append(tables,
                      [gotype |-> ty,
                       tmap |-> [AddTableWithName("S") EXCEPT !.columns = r.cols,
                                                               !.version = r.version]])
    /\ ret' = [NoRet EXCEPT !.op = "AddTableWithName", !.at = Len(tables) + 1]
    /\ UNCHANGED <<table, rows, nextId, recs, call, log, txs, procs, builds, epoch, hooks, typed, dbmap>>

NextEmbed == \E ty \in StructTypes : AddStruct(ty)

SpecEmbed == Init /\ [][NextEmbed]_vars

----------------------------------------------------------------------------
(* bindUpdate with a ColumnFilter, as src/mapping_test.go has it: SpecFilter *)

\* A ColumnFilter is taken by the field names of the columns it accepts; a
\* caller can also pass nil.
ColumnFilters ==
    {[isNil |-> TRUE, accepts |-> {}]}
       \cup {[isNil |-> FALSE, accepts |-> fs] : fs \in SUBSET {Fields[y] : y \in 1..Len(Fields)}}

acceptAllFilter == [isNil |-> FALSE, accepts |-> {Fields[y] : y \in 1..Len(Fields)}]

\* The loop over t.Columns that writes the SET list.
RECURSIVE bindUpdate_SetLoop(_, _, _, _)
bindUpdate_SetLoop(t, y, colFilter, acc) ==
    IF y > Len(t.columns) THEN acc
    ELSE LET col == t.columns[y] IN
         IF ~col.isAutoIncr /\ ~col.Transient /\ col.fieldName \in colFilter.accepts
         THEN bindUpdate_SetLoop(t, y + 1, colFilter,
                [acc EXCEPT !.cols = Append(@, col.ColumnName),
                            !.vars = Append(@, BindVar(acc.x)),
                            !.versField = IF y = t.version THEN col.fieldName ELSE @,
                            !.argFields = Append(@, IF y = t.version
                                                    THEN versFieldConst
                                                    ELSE col.fieldName),
                            !.x = @ + 1])
         ELSE bindUpdate_SetLoop(t, y + 1, colFilter, acc)

\* bindUpdate(elem, colFilter).  plan.once.Do runs its function for a bindPlan
\* the first time only; the function leaves a query that is not empty, and
\* ResetSql stores a new bindPlan{}, so the once has run exactly when the
\* query is set.  [table, cbi]
bindUpdate_colFilter(t, elem, colFilter) ==
    LET f == IF colFilter.isNil THEN acceptAllFilter ELSE colFilter
        plan == IF t.updatePlan.query = NoQuery
                THEN PlanOf(t, "update",
                        bindUpdateVersion(t,
                           bindUpdateKeyLoop(t, 1, bindUpdate_SetLoop(t, 1, f, BuildAcc))))
                ELSE t.updatePlan
    IN [table |-> [t EXCEPT !.updatePlan = plan], cbi |-> createBindInstance(plan, elem)]

\* What the call that returned b for colFilter leaves: the plan in the
\* TableMap, the struct, and the statement with the filter it was made for.
Bound(colFilter, b) ==
    /\ table' = b.table
    /\ recs' = [recs EXCEPT !["p1"] = b.cbi.elem]
    /\ log' = <<[query |-> b.cbi.bi.query, args |-> b.cbi.bi.args, colFilter |-> colFilter]>>
    /\ ret' = [NoRet EXCEPT !.op = "bindUpdate"]

CallBindUpdate(colFilter) ==
    /\ Bound(colFilter, bindUpdate_colFilter(table, recs["p1"], colFilter))
    /\ UNCHANGED <<rows, nextId, call, txs, procs, builds, epoch, hooks, tables, typed, dbmap>>

NextFilter ==
    \/ \E y \in 1..Len(Fields), b \in BOOLEAN : CallSetTransient(y, b)
    \/ \E isAutoIncr \in BOOLEAN, fieldNames \in KeyLists :
          CallSetKeys(isAutoIncr, fieldNames)
    \/ CallResetSql
    \/ \E colFilter \in ColumnFilters : CallBindUpdate(colFilter)

SpecFilter == Init /\ [][NextFilter]_vars

----------------------------------------------------------------------------
(* DbMap.initialise under Exec / Query / QueryRow of two goroutines: SpecInit *)

\* Dialect.InitString(): none, or a statement such as "PRAGMA foreign_keys = ON".
InitStrings == {"", "init"}
DbOps == {"Exec", "Query", "QueryRow"}

\* A statement as the driver receives it from m.Db.Exec / Query / QueryRow.
Sent(text, fail) == [query |-> text, err |-> fail]

\* A goroutine enters Exec, Query or QueryRow, whose first line is
\* m.initialise().
DbCall(g, op) ==
    /\ procs[g].pc = "idle"
    /\ Len(log) < MaxStatements
    /\ procs' = [procs EXCEPT ![g].pc = "test", ![g].op = op]
    /\ UNCHANGED <<table, rows, nextId, recs, call, ret, log, txs, builds, epoch, hooks, tables, typed, dbmap>>

\* if !m.initialised: the read of the flag, which no lock guards.
TestFlag(g) ==
    /\ procs[g].pc = "test"
    /\ procs' = [procs EXCEPT ![g].pc = IF dbmap.initialised THEN "send" ELSE "set"]
    /\ UNCHANGED <<table, rows, nextId, recs, call, ret, log, txs, builds, epoch, hooks, tables, typed, dbmap>>

\* m.initialised = true, before the statement is sent.
SetFlag(g) ==
    /\ procs[g].pc = "set"
    /\ dbmap' = [dbmap EXCEPT !.initialised = TRUE]
    /\ procs' = [procs EXCEPT ![g].pc = IF dbmap.InitString # "" THEN "init" ELSE "send"]
    /\ UNCHANGED <<table, rows, nextId, recs, call, ret, log, txs, builds, epoch, hooks, tables, typed>>

\* _, err = m.Db.Exec(m.Dialect.InitString()); with an error Exec and Query
\* return it and QueryRow panics, and the caller's statement is not sent.
RunInit(g, fail) ==
    /\ procs[g].pc = "init"
    /\ log' = Append(log, Sent(dbmap.InitString, fail))
    /\ procs' = [procs EXCEPT ![g].pc = IF fail THEN "idle" ELSE "send",
                              ![g].op = IF fail THEN "none" ELSE @]
    /\ ret' = IF fail
              THEN [NoRet EXCEPT !.op = procs[g].op,
                                 !.err = IF procs[g].op = "QueryRow" THEN "panic" ELSE "Init",
                                 !.at = g]
              ELSE ret
    /\ UNCHANGED <<table, rows, nextId, recs, call, txs, builds, epoch, hooks, tables, typed, dbmap>>

\* m.Db.Exec / Query / QueryRow(query, args...): the caller's statement.
Send(g, fail) ==
    /\ procs[g].pc = "send"
    /\ log' = Append(log, Sent("stmt", fail))
    /\ procs' = [procs EXCEPT ![g].pc = "idle", ![g].op = "none"]
    /\ ret' = [NoRet EXCEPT !.op = procs[g].op,
                            !.err = IF fail THEN "Exec" ELSE "nil", !.at = g]
    /\ UNCHANGED <<table, rows, nextId, recs, call, txs, builds, epoch, hooks, tables, typed, dbmap>>

\* A new DbMap over either kind of dialect.
InitDb ==
    /\ \E text \in InitStrings : dbmap = [NoDb EXCEPT !.InitString = text]
    /\ table = SetKeys(AddTableWithName(DbTable), FALSE, <<"Id">>)
    /\ rows = {}
    /\ nextId = 1
    /\ recs = [h \in Handles |-> [Id |-> 0, Name |-> "a", Version |-> 0]]
    /\ call = Idle
    /\ ret = NoRet
    /\ log = <<>>
    /\ txs = [t \in TxIds |-> NoTx]
    /\ procs = [g \in Goroutines |-> IdleProc]
    /\ builds = [p \in PlanNames |-> 0]
    /\ epoch = 0
    /\ hooks = <<>>
    /\ tables = <<>>
    /\ typed = 0

NextInit ==
    \/ \E g \in Goroutines, op \in DbOps : DbCall(g, op)
    \/ \E g \in Goroutines : TestFlag(g)
    \/ \E g \in Goroutines : SetFlag(g)
    \/ \E g \in Goroutines, fail \in BOOLEAN : RunInit(g, fail)
    \/ \E g \in Goroutines, fail \in BOOLEAN : Send(g, fail)

SpecInit == InitDb /\ [][NextInit]_vars

----------------------------------------------------------------------------
(* Optimistic locking and batches, under Spec *)

\* The record the step in progress works on, as the step finds it.
InStep == call.op \in {"insert", "update", "delete"}
Cur == call.list[call.i]
Held == recs[Cur].Version
Key == recs[Cur].Id

\* What the step just taken returned for its record.
StepErr == IF call'.op = "none" THEN ret'.err ELSE "nil"

\* The stored versions under a key (none, or one: Id is the primary key).
VersionsAt(rws, key) == {r.Version : r \in {x \in rws : x.Id = key}}

\* Errors of the collaborators: a hook or the driver failing on its own.
CollaboratorErrs == {"PreInsert", "PreUpdate", "PreDelete", "PostInsert",
                     "PostUpdate", "PostDelete", "Exec", "Query", "PostGet"}

\* The value a statement of the trace binds to column c in its SET / VALUES
\* list and in its WHERE clause.
SetArg(st, c) ==
    st.args[st.query.vars[CHOOSE i \in 1..Len(st.query.cols) : st.query.cols[i] = c]]
WhereArg(st, c) ==
    st.args[st.query.wvars[CHOOSE i \in 1..Len(st.query.wcols) : st.query.wcols[i] = c]]

\* The three parts of version monotonicity for a step on a record that holds
\* a version of at least low.
VersionStep(low) ==
    InStep =>
       /\ (call.op = "insert" /\ Held = 0 /\ StepErr = "nil")
             => /\ recs'[Cur].Version = 1
                /\ VersionsAt(rows', recs'[Cur].Id) = {1}
       /\ (call.op = "update" /\ Held >= low /\ StepErr = "nil")
             => /\ recs'[Cur].Version = Held + 1
                /\ VersionsAt(rows, Key) = {Held}
                /\ VersionsAt(rows', Key) = {Held + 1}
       /\ (call.op \in {"update", "delete"} /\ Held >= low
              /\ \E v \in VersionsAt(rows, Key) : Held < v)
             => /\ StepErr \in {"OptimisticLockError"} \cup CollaboratorErrs
                /\ rows' = rows

ZeroRowsStep(low) ==
    (InStep /\ call.op \in {"update", "delete"} /\ Len(log') >= 1 /\ ~log'[1].err)
      => /\ (log'[1].n = 0 /\ Held >= low)
            => /\ Len(log') = 2
               /\ log'[2].query.verb = "select"
               /\ log'[2].args = <<Key>>
               /\ \/ /\ StepErr = "OptimisticLockError"
                     /\ ret'.ole.RowExists = (VersionsAt(rows', Key) # {})
                  \/ StepErr \in {"Query", "PostGet"}
         /\ (StepErr = "nil" /\ Held >= low) => log'[1].n > 0

C3_ConflictDiscrimination ==
    ret.err = "OptimisticLockError"
      => /\ ret.ole.RowExists = (VersionsAt(rows, ret.ole.Keys[1]) # {})
         /\ ret.ole.LocalVersion \notin VersionsAt(rows, ret.ole.Keys[1])

\* An Update met a row that had been deleted in the meantime.
C3_Witness ==
    /\ ret.op = "update" /\ ret.err = "OptimisticLockError"
    /\ ~ret.ole.RowExists /\ VersionsAt(rows, ret.ole.Keys[1]) = {}

\* The outcome of an Update / Delete step on a record whose stored row has
\* another version than the record holds, for held versions of at least low:
\* the call returns -1 with the conflict error (or the error of a hook or
\* driver that failed first) and the store is as before.
StaleStep(low) ==
    (InStep /\ call.op \in {"update", "delete"} /\ Held >= low
       /\ VersionsAt(rows, Key) \notin {{}, {Held}})
      => /\ call'.op = "none"
         /\ ret'.count = -1
         /\ ret'.err \in {"OptimisticLockError"} \cup CollaboratorErrs
         /\ ret'.err = "OptimisticLockError"
               => ret'.ole.RowExists /\ ret'.ole.LocalVersion = Held
         /\ rows' = rows

C5_WhereBindsHeldVersion ==
    [][(InStep /\ call.op = "update" /\ Len(log') >= 1)
         => /\ WhereArg(log'[1], "Version") = Held
            /\ SetArg(log'[1], "Version") = Held + 1]_vars

\* C10: a call works on its records in argument order, one per step, and
\* touches no other record; a step whose statement the driver failed ends the
\* call at that record with that failure; a step that fails leaves every row
\* stored under another key in place, and the whole store in place when its
\* own statement wrote nothing.
C10_BatchOrder ==
    [][InStep =>
         /\ \A h \in Handles \ {Cur} : recs'[h] = recs[h]
         /\ \/ /\ call'.op = call.op /\ call'.list = call.list
               /\ call'.i = call.i + 1
            \/ /\ call'.op = "none" /\ ret'.op = call.op /\ ret'.at = call.i
               /\ ret'.err = "nil" => call.i = Len(call.list)
         /\ (Len(log') >= 1 /\ log'[1].err)
               => call'.op = "none" /\ ret'.err = "Exec" /\ ret'.at = call.i
         /\ StepErr # "nil"
               => /\ \A r \in rows : r.Id # Key => r \in rows'
                  /\ (log' = <<>> \/ log'[1].err \/ log'[1].n = 0) => rows' = rows]_vars

\* An Insert of two records failed at the second; the first one's row stays.
C10_Witness ==
    /\ ret.op = "insert" /\ ret.err = "Exec" /\ ret.at = 2
    /\ Len(log) = 1 /\ log[1].err
    /\ \E h \in Handles : recs[h].Version = 1 /\ 1 \in VersionsAt(rows, recs[h].Id)

----------------------------------------------------------------------------
(* The plan cache, under SpecMeta and SpecRace *)

ResettingMutators == {"SetKeys", "SetVersionCol"}
PlainMutators == {"Rename", "SetTransient", "SetUnique"}

\* C6 as stated: after Rename, SetTransient, SetUnique, SetKeys or
\* SetVersionCol all four cached plans are cleared.
C6_AsStated == ret.op \in ResettingMutators \cup PlainMutators => Cleared(table)

\* C6, amended: SetKeys, SetVersionCol and ResetSql clear all four cached
\* plans, and the bind call that follows builds its plan from the metadata as
\* they are then; Rename, SetTransient and SetUnique leave the cached plans
\* as they were.
C6_Invalidation ==
    [][/\ ret'.op \in ResettingMutators \cup {"ResetSql"} => Cleared(table')
       /\ ret'.op \in PlainMutators
             => \A p \in PlanNames : CachedPlan(table', p) = CachedPlan(table, p)
       /\ \A p \in PlanNames :
             (ret'.op = p /\ Cleared(table)) => CachedPlan(table', p) = BuildPlan(table, p)
      ]_vars

\* SetKeys was called with all four plans cached and left none.
C6_Witness == ret.op = "SetKeys" /\ ret.count = 4 /\ Cleared(table)

----------------------------------------------------------------------------
(* Transactions, under SpecTx *)

\* C9: once Commit or Rollback has been called on a Transaction, the driver
\* has been reached exactly once for it, and every later Commit or Rollback
\* has returned sql.ErrTxDone.
C9_FinishOnce ==
    \A t \in TxIds :
       /\ txs[t].calls >= 1 => txs[t].closed /\ txs[t].drv = 1
       /\ txs[t].calls >= 2 => txs[t].last = "ErrTxDone"
       /\ txs[t].calls = 0 => txs[t].drv = 0

\* A second Commit or Rollback has returned sql.ErrTxDone.
C9_Witness ==
    \E t \in TxIds : txs[t].calls = 2 /\ txs[t].last = "ErrTxDone" /\ txs[t].drv = 1

----------------------------------------------------------------------------
(* Hooks and lookups, under Spec *)

PreHooks == {"PreInsert", "PreUpdate", "PreDelete"}

\* C11: a hook that returned an error is the last thing its step called; the
\* call has ended there and returned exactly that error value; after a
\* failing Pre hook no statement was sent for the record.
C11_HookErrorAborts ==
    \A i \in 1..Len(hooks) :
       hooks[i].err # "nil"
         => /\ i = Len(hooks)
            /\ call.op = "none"
            /\ ret.err = hooks[i].err
            /\ hooks[i].name \in PreHooks => log = <<>>

\* The PreUpdate hook of the second record of an Update failed.
C11_Witness ==
    /\ ret.op = "update" /\ ret.at = 2 /\ ret.err = "PreUpdate"
    /\ hooks = <<HookCall("PreUpdate", TRUE)>> /\ log = <<>>

\* C12: a Get whose query the driver ran and which matched no row returns
\* (nil, nil) and calls no PostGet hook.
C12_GetNoRows ==
    (ret.op = "get" /\ Len(log) = 1 /\ ~log[1].err
       /\ VersionsAt(rows, log[1].args[1]) = {})
      => ret.err = "nil" /\ ret.at = 0 /\ hooks = <<>>

\* A Get by a key under which no row is stored has returned.
C12_Witness ==
    /\ ret.op = "get" /\ ret.err = "nil" /\ ret.at = 0
    /\ Len(log) = 1 /\ ~log[1].err /\ log[1].args = <<1>>
    /\ rows # {} /\ VersionsAt(rows, 1) = {}

\* C22: a record step sends its INSERT, UPDATE or DELETE at most once; when
\* that statement fails nothing follows it and the call ends with the driver's
\* error; the only statement that can follow it is the one lookup by key of a
\* conflict (zero rows affected), after which the call ends with the conflict
\* or with the lookup's own error.
C22_NoRetry ==
    /\ Cardinality({i \in 1..Len(log) : log[i].query.verb # "select"}) <= 1
    /\ Cardinality({i \in 1..Len(log) : log[i].query.verb = "select"}) <= 1
    /\ \A i \in 1..Len(log) :
          log[i].err => /\ i = Len(log)
                        /\ call.op = "none"
                        /\ ret.err \in {"Exec", "Query"}
    /\ Len(log) = 2
          => /\ log[1].query.verb \in {"update", "delete"}
             /\ log[1].n = 0
             /\ log[2].query.verb = "select"
             /\ call.op = "none"
             /\ ret.err \in {"OptimisticLockError", "Query", "PostGet"}

\* An Update that met a conflict: its UPDATE, then the lookup, then the error.
C22_Witness ==
    /\ ret.op = "update"
    /\ ret.err = "OptimisticLockError"
    /\ Len(log) = 2
    /\ log[1].query.verb = "update"
    /\ log[2].query.verb = "select"

\* The version a record holds after an Insert or Update step on it ended with
\* the error of its own statement, for a record that held a version in vs:
\* the version it held, or what zero stands for.
FailedWrite(vs, zero) ==
    (InStep /\ call.op \in {"insert", "update"} /\ Held \in vs /\ StepErr = "Exec")
       => recs'[Cur].Version = IF Held = 0 THEN zero ELSE Held

\* C25 as stated: when Insert or Update returns an error for a record because
\* executing its statement failed, the record's version field holds the value
\* it held before.
C25_AsStated == [][FailedWrite(0..(MaxVersion + 1), 0)]_vars

\* C25, amended: the same for a record that holds a version of at least 1; a
\* record that holds version 0 holds version 1 after the failed statement.
C25_VersionOnFailure == [][FailedWrite(0..(MaxVersion + 1), 1)]_vars

\* An Update of a record at version 1 has failed in its statement, which
\* carried version 2, and the record is still at version 1.
C25_Witness ==
    /\ ret.op = "update" /\ ret.err = "Exec"
    /\ Len(log) = 1 /\ log[1].err /\ WhereArg(log[1], "Version") = 1
    /\ \A h \in Handles : recs[h].Version = 1

----------------------------------------------------------------------------
(* The registry, under SpecReg *)

\* The name a TableMap registered as name carries.
NameFor(ty, name) == IF name = "" THEN ty ELSE name

\* The types that have a TableMap in the registry tbls.
Registered(tbls) == {tbls[i].gotype : i \in 1..Len(tbls)}

\* C13: after any sequence of AddTable / AddTableWithName calls the registry
\* holds one TableMap per type; registering a registered type returns the
\* TableMap it already has, with the name of this call, and adds nothing; a
\* CreateTables or DropTables that runs to its end sends one statement per
\* registered type, for that type's TableMap.
C13_IdempotentRegistration ==
    [][/\ \A i, j \in 1..Len(tables') : tables'[i].gotype = tables'[j].gotype => i = j
       /\ \A ty \in Types, name \in RegNames :
             CallAddTableWithName(ty, name)
               => /\ ret'.at = tableOrNil(tables', ty)
                  /\ tables'[ret'.at].tmap.TableName = NameFor(ty, name)
                  /\ ty \in Registered(tables)
                       => /\ ret'.at = tableOrNil(tables, ty)
                          /\ Len(tables') = Len(tables)
       /\ (ret'.op \in {"CreateTables", "DropTables"} /\ ret'.err = "nil")
             => /\ Len(log') = Cardinality(Registered(tables'))
                /\ \A i \in 1..Len(log') :
                      log'[i].query.table = tables'[i].tmap.TableName]_vars

\* T registered, then U, then T again as "V": still two entries, T's returned.
C13_Witness ==
    /\ ret.op = "AddTableWithName"
    /\ ret.at = 1
    /\ Len(tables) = 2
    /\ tables[1].gotype = "T"
    /\ tables[1].tmap.TableName = "V"

\* The registered type ty has a TableMap without key columns.
Keyless(ty) ==
    ty \in Registered(tables) /\ tables[tableOrNil(tables, ty)].tmap.keys = <<>>

\* The step left the store, the structs and the registry as they were and
\* sent no statement and called no hook.
NothingRun == log' = <<>> /\ hooks' = <<>> /\ UNCHANGED <<rows, nextId, recs, tables>>

C15_NoKeysIsAnError ==
    [][\A ty \in Types :
          Keyless(ty)
            => /\ \A op \in {"update", "delete"} :
                     TypedWrite(op, ty) => ret'.err = "NoKeys" /\ NothingRun
               /\ \A key \in Ids :
                     TypedGet(ty, key) => ret'.err = "NoKeys" /\ NothingRun
               /\ TypedWrite("insert", ty)
                     => /\ ret'.err \notin {"NoKeys", "panic"}
                        /\ ret'.err = "nil"
                             => /\ Len(log') = 1
                                /\ log'[1].query.verb = "insert"
                                /\ rows' # rows]_vars

\* An Update refused for want of keys after an Insert of the same type went
\* through.
C15_Witness ==
    /\ ret.op = "update"
    /\ ret.err = "NoKeys"
    /\ Len(tables) = 1
    /\ tables[1].tmap.keys = <<>>
    /\ rows # {}

\* C26: after a type is registered again under another table name, every
\* INSERT, UPDATE, DELETE and SELECT generated for the type from then on names
\* the new table, also when its plans were built and cached under the old name.
C26_RenameRetargets ==
    [][\A ty \in Types :
          (\/ \E op \in {"insert", "update", "delete"} : TypedWrite(op, ty)
           \/ \E key \in Ids : TypedGet(ty, key))
             => \A i \in 1..Len(log') :
                   log'[i].query.table = tables'[tableOrNil(tables', ty)].tmap.TableName]_vars

\* C30: CreateTables and CreateTablesIfNotExists stop at the first registered
\* table whose statement fails and return that error; they return nil only
\* when the statement of every registered table was executed without error.
C30_CreateTablesStopsAndReports ==
    ret.op \in {"CreateTables", "CreateTablesIfNotExists"}
       => /\ \A i \in 1..Len(log) : log[i].err => i = Len(log) /\ ret.err = "Exec"
          /\ ret.err = "nil" => /\ Len(log) = Len(tables)
                                /\ \A i \in 1..Len(log) : ~log[i].err

----------------------------------------------------------------------------
(* Records through the store and back, under SpecData *)

\* No hook and no driver call fails.
NoFaults == [pre |-> FALSE, exec |-> FALSE, post |-> FALSE, look |-> FALSE,
             postget |-> FALSE]

\* What a Get by the key of the record just inserted returns, in the state
\* the Insert step leaves.
GetBack == get(table', rows', nextId', <<recs'[Cur].Id>>, NoFaults)

\* An Insert step that succeeded on a record holding a version in held is
\* followed by a Get that finds a record equal to the in-memory one on every
\* field of a non-transient column.
RoundTrip(held) ==
    (call.op = "insert" /\ StepErr = "nil" /\ Held \in held)
       => /\ GetBack.err = "nil"
          /\ GetBack.found
          /\ \A y \in 1..Len(table'.columns) :
                ~table'.columns[y].Transient
                   => GetBack.rec[table'.columns[y].fieldName]
                         = recs'[Cur][table'.columns[y].fieldName]

\* C16 as stated: for any record value, after a successful Insert a Get by the
\* record's key returns a record equal to the in-memory record on every
\* non-transient field, the auto-increment key and the version included.
C16_AsStated == [][RoundTrip(0..(MaxVersion + 1))]_vars

\* C16, amended: the same for a record whose version field is zero when it is
\* inserted.  (With a version above zero the row gets that version plus one
\* and the struct keeps the version it had.)
C16_RoundTrip == [][RoundTrip({0})]_vars

\* A Get that read back the record an auto-increment Insert had filled in:
\* both structs hold the generated id and version 1.
C16_Witness ==
    /\ ret.op = "get"
    /\ ret.at = 1
    /\ \E y \in 1..Len(table.columns) : table.columns[y].isAutoIncr
    /\ \A y \in 1..Len(table.columns) : ~table.columns[y].Transient
    /\ recs["p1"] = [Id |-> 1, Name |-> "a", Version |-> 1]
    /\ recs["p2"] = recs["p1"]
    /\ rows = {[Id |-> 1, Name |-> "a", Version |-> 1]}

\* C17: a successful Insert of a record whose auto-increment key field is zero
\* leaves in that field the id the store generated for the row: it is not
\* zero, it is the store's counter value, and the row added carries it.
C17_AutoIncrPropagated ==
    [][(/\ call.op = "insert"
        /\ StepErr = "nil"
        /\ recs[Cur].Id = 0
        /\ \E y \in 1..Len(table.columns) :
              table.columns[y].isAutoIncr /\ table.columns[y].fieldName = "Id")
          => /\ recs'[Cur].Id # 0
             /\ recs'[Cur].Id = nextId
             /\ \E r \in rows' \ rows : r.Id = recs'[Cur].Id]_vars

\* After an auto-increment Insert of a struct filled with key 0: the struct
\* and the one stored row hold id 1.
C17_Witness ==
    /\ ret.op = "insert"
    /\ ret.err = "nil"
    /\ \E y \in 1..Len(table.columns) : table.columns[y].isAutoIncr
    /\ recs["p1"].Id = 1
    /\ nextId = 2
    /\ \E r \in rows : r.Id = 1

\* C23: SelectOne with a struct holder and a query that matches no row returns
\* no error and leaves the holder as it was (at the zero value, for a holder
\* that pointed at one).
C23_SelectOneNoRows ==
    [][\A h \in Handles, key \in Ids :
          (SelectOne(h, <<key>>) /\ ~log'[1].err /\ VersionsAt(rows, key) = {})
             => ret'.err = "nil" /\ recs'[h] = recs[h]]_vars

----------------------------------------------------------------------------
(* Transient columns, under SpecMark *)

\* The elements of a sequence.
Range(seq) == {seq[i] : i \in 1..Len(seq)}

\* The verb of the statement of plan p, and the plan of the statement st.
PlanOfStmt(st) == IF st.query.verb = "select" THEN "get" ELSE st.query.verb

\* The step generated the statement of plan p: none was cached before it.
Generated(p) ==
    CachedPlan(table, p).query = NoQuery /\ CachedPlan(table', p).query # NoQuery

\* The fields a plan binds to its column list (for update, the SET list: the
\* arguments after it belong to the WHERE clause).
ListFields(plan) ==
    IF plan.query.verb = "update"
    THEN Range(SubSeq(plan.argFields, 1, Len(plan.query.cols)))
    ELSE Range(plan.argFields)

\* Every INSERT, UPDATE or SELECT the step sent (when whenever holds: whether
\* generated by this step or taken from the cache; otherwise only if generated
\* by this step) names no column that is marked transient, in its column list
\* and among the fields bound to it (with wheretoo: in its WHERE clause also);
\* a Get that found its row leaves the zero value in the field of a transient
\* column, and an Insert leaves the column's zero value in the row it adds.
TransientOut(whenever, wheretoo) ==
    \A y \in 1..Len(table'.columns) :
       table'.columns[y].Transient =>
          LET col == table'.columns[y] IN
          /\ \A i \in 1..Len(log') :
                LET st == log'[i]
                    plan == CachedPlan(table', PlanOfStmt(st))
                IN (/\ st.query.verb \in {"insert", "update", "select"}
                    /\ whenever \/ Generated(PlanOfStmt(st)))
                      => /\ col.ColumnName \notin Range(st.query.cols)
                         /\ col.fieldName \notin ListFields(plan)
                         /\ wheretoo => /\ col.ColumnName \notin Range(st.query.wcols)
                                        /\ col.fieldName \notin Range(plan.argFields)
                                        /\ col.fieldName \notin Range(plan.keyFields)
          /\ \A h \in Handles, key \in Ids :
                (Get(h, key) /\ ret'.at = 1 /\ (whenever \/ Generated("get")))
                   => recs'[h][col.fieldName] = ZeroStruct[col.fieldName]
          /\ (call.op = "insert" /\ StepErr = "nil" /\ ~col.isPK
                 /\ (whenever \/ Generated("insert")))
                => \A r \in rows' \ rows : r[col.fieldName] = ZeroRow[col.fieldName]

----------------------------------------------------------------------------
(* Keys and struct columns, under SpecMeta *)

\* C19: after any sequence of SetKeys calls, a column flagged auto-increment
\* is the table's one key column.
C19_AutoIncrIsTheKey ==
    \A y \in 1..Len(table.columns) :
       table.columns[y].isAutoIncr => table.keys = <<y>>

\* C27: after any sequence of SetKeys calls a column is flagged primary key
\* exactly when it is in the table's key list, so that the UPDATE statement
\* names every non-transient column in its SET list or in its WHERE clause.
C27_KeyFlagsMatchKeys ==
    /\ \A y \in 1..Len(table.columns) : table.columns[y].isPK <=> y \in Range(table.keys)
    /\ LET q == buildUpdate(table).query IN
       \A y \in 1..Len(table.columns) :
          ~table.columns[y].Transient
             => table.columns[y].ColumnName \in Range(q.cols) \cup Range(q.wcols)

\* The fields of name f that the struct type ty declares itself, and those
\* that its embedded structs declare.
OuterFields(ty, f) == {i \in 1..Len(ty) : ~ty[i].anonymous /\ ty[i].name = f}
InnerFields(ty, f) ==
    {<<i, j>> \in (1..Len(ty)) \X (1..2) :
        ty[i].anonymous /\ j <= Len(ty[i].type) /\ ty[i].type[j].name = f}

FirstVersion(cols) ==
    LET hits == {y \in 1..Len(cols) : cols[y].fieldName = "Version"}
    IN IF hits = {} THEN 0 ELSE CHOOSE y \in hits : \A z \in hits : y <= z

\* C21: at registration the version column of a table is the first column, in
\* declaration order with embedded structs flattened, whose field name is
\* Version (and there is none when no column has that field name).
C21_FirstVersionColumn ==
    \A x \in 1..Len(tables) :
       tables[x].tmap.version = FirstVersion(tables[x].tmap.columns)

----------------------------------------------------------------------------
(* Column filters, under SpecFilter *)

\* The columns of t an UPDATE for colFilter is to set, in column order.
SetList(t, colFilter) ==
    LET set == SelectSeq(t.columns,
                  LAMBDA col : /\ ~col.Transient
                               /\ ~col.isAutoIncr
                               /\ (colFilter.isNil \/ col.fieldName \in colFilter.accepts))
    IN [i \in 1..Len(set) |-> set[i].ColumnName]

\* C28: a bindUpdate call with column filter F returns an UPDATE whose SET
\* list is exactly the non-transient, non-auto-increment columns F accepts,
\* whatever filters earlier bindUpdate calls on the table were given.
C28_SetListFollowsFilter ==
    ret.op = "bindUpdate" => log[1].query.cols = SetList(table, log[1].colFilter)

----------------------------------------------------------------------------
(* The initialization statement, under SpecInit *)

\* The positions in the driver's trace of the initialization statement.
InitRuns == {i \in 1..Len(log) : dbmap.InitString # "" /\ log[i].query = dbmap.InitString}

\* C24: over any interleaving of Exec / Query / QueryRow calls on one DbMap the
\* dialect's initialization statement is executed at most once.
C24_InitAtMostOnce == Cardinality(InitRuns) <= 1

\* C29: with a non-empty InitString, a caller's statement reaches the driver
\* only after the initialization statement was executed without error.
C29_InitBeforeStatements ==
    dbmap.InitString # ""
       => \A i \in 1..Len(log) :
             log[i].query = "stmt" => \E j \in InitRuns : j < i /\ ~log[j].err

====
